---- MODULE Spec2Model ----
(***************************************************************************)
(* PCM audio-processing and export pipeline of the text-to-voice           *)
(* generator: utils/audioProcessor.ts (convertToPCM, normalizeAudio,       *)
(* amplifyAudio) and utils/pcmExporter.ts (exportAsWAV, exportAsCArray,    *)
(* exportAsJSON).                                                          *)
(*                                                                         *)
(* Samples are floating-point numbers in the program.  Here a buffer       *)
(* carries a denominator `den` and every sample is the exact rational      *)
(* (integer in the channel) / den, so all arithmetic below is exact.       *)
(* Array indices are 0-based in the program and 1-based in the sequences   *)
(* here: program index k is sequence position k + 1.                       *)
(***************************************************************************)
EXTENDS Integers, Sequences, FiniteSets, TLC

VARIABLES audioBuffer, pcmData, op, arg, result,
          history, localStorage, now,
          originalAudioBuffer, trimStart, trimEnd, inFlight, clicks,
          text, chunksRef, currentIndexRef, utteranceRef, isPlaying, isPaused,
          utterances, spoken, enginePaused

\* the state of the audio editor panel besides its working buffer
editorVars == <<originalAudioBuffer, trimStart, trimEnd, inFlight, clicks>>

\* the state of the text-to-speech hook besides its history, and of the
\* browser's speech engine
speechVars == <<text, chunksRef, currentIndexRef, utteranceRef, isPlaying,
                isPaused, utterances, spoken, enginePaused>>

vars == <<audioBuffer, pcmData, op, arg, result, history, localStorage, now,
          editorVars, speechVars>>

-----------------------------------------------------------------------------
(* Bounds of the input space                                               *)

MaxLen == 2

MaxPcmLen == 18

SampleDen == 4

Samples == {-20, -4, -1, 0, 2, 20}

SourceRates == {1000, 12000, 44100}

PCMRates == {8000, 11025, 16000}

NoBuffer == [sampleRate |-> 0, den |-> 1, channels |-> <<>>]

NoPCM == <<-1>>

NoResult == [kind |-> "none"]

-----------------------------------------------------------------------------
(* Arithmetic helpers                                                      *)

Abs(x) == IF x < 0 THEN -x ELSE x

Max2(a, b) == IF a > b THEN a ELSE b

Min2(a, b) == IF a < b THEN a ELSE b

\* Math.floor(n / d) for d > 0
MathFloor(n, d) == n \div d

\* Math.round(n / d) for d > 0: nearest integer, ties towards +Infinity
MathRound(n, d) == (2 * n + d) \div (2 * d)

\* the clamp without its lower limit: Math.min(1, n / d)
ClampUpperOnly(n, d) == Min2(d, n)

\* the clamp without its upper limit: Math.max(-1, n / d)
ClampLowerOnly(n, d) == Max2(-d, n)

\* Math.max(-1, Math.min(1, n / d)) as a numerator over d
Clamp(n, d) == Max2(-d, Min2(d, n))

\* store of a number into a Uint8Array element
ToUint8(v) == v % 256

-----------------------------------------------------------------------------
(* AudioBuffer                                                             *)

numberOfChannels(buf) == Len(buf.channels)

getChannelData(buf, channel) == buf.channels[channel + 1]

BufferLength(buf) == Len(buf.channels[1])

\* the element read one position too cautiously: the last sample reads as 0
ElementOrZeroStrict(data, index) ==
  IF index >= 0 /\ index + 1 < Len(data) THEN data[index + 1] ELSE 0

\* sourceData[index] || 0
ElementOrZero(data, index) ==
  IF index >= 0 /\ index < Len(data) THEN data[index + 1] ELSE 0

-----------------------------------------------------------------------------
(* convertToPCM                                                            *)

\* the target length rounded to the nearest integer instead of floored
TargetLengthRounded(sourceLength, sampleRate, sourceSampleRate) ==
  MathRound(sourceLength * sampleRate, sourceSampleRate)

TargetLength(sourceLength, sampleRate, sourceSampleRate) ==
  MathFloor(sourceLength * sampleRate, sourceSampleRate)

\* the interpolation with the two weights exchanged
InterpolatedSampleSwapped(sourceData, sampleRate, sourceSampleRate, i) ==
  LET index == MathFloor(i * sourceSampleRate, sampleRate)
      fraction == (i * sourceSampleRate) % sampleRate
  IN  IF index + 1 < Len(sourceData)
        THEN sourceData[index + 1] * fraction
               + sourceData[index + 2] * (sampleRate - fraction)
        ELSE ElementOrZero(sourceData, index) * sampleRate

\* numerator of the interpolated sample for output index i, over sampleRate * den
InterpolatedSample(sourceData, sampleRate, sourceSampleRate, i) ==
  LET index == MathFloor(i * sourceSampleRate, sampleRate)
      fraction == (i * sourceSampleRate) % sampleRate
  IN  IF index + 1 < Len(sourceData)
        THEN sourceData[index + 1] * (sampleRate - fraction)
               + sourceData[index + 2] * fraction
        ELSE ElementOrZero(sourceData, index) * sampleRate

PCMByte(sourceData, den, sampleRate, sourceSampleRate, i) ==
  LET d == den * sampleRate
      sample == Clamp(InterpolatedSample(sourceData, sampleRate, sourceSampleRate, i), d)
  IN  ToUint8(MathRound((sample + d) * 255, 2 * d))

\* the conversion reading the last channel instead of channel 0
convertToPCMLastChannel(buf, sampleRate) ==
  LET sourceSampleRate == buf.sampleRate
      sourceData == getChannelData(buf, numberOfChannels(buf) - 1)
      targetLength == TargetLength(Len(sourceData), sampleRate, sourceSampleRate)
  IN  [j \in 1..targetLength |->
         PCMByte(sourceData, buf.den, sampleRate, sourceSampleRate, j - 1)]

convertToPCM(buf, sampleRate) ==
  LET sourceSampleRate == buf.sampleRate
      sourceData == getChannelData(buf, 0)
      targetLength == TargetLength(Len(sourceData), sampleRate, sourceSampleRate)
  IN  [j \in 1..targetLength |->
         PCMByte(sourceData, buf.den, sampleRate, sourceSampleRate, j - 1)]

-----------------------------------------------------------------------------
(* audioContext.createBuffer: a zero-filled buffer; the platform rejects   *)
(* a request for no channels or for no frames                              *)

Throw == [kind |-> "throw"]

createBuffer(channels, length, sampleRate, den) ==
  IF channels < 1 \/ length < 1 \/ sampleRate < 1
    THEN Throw
    ELSE [kind |-> "buffer", same |-> FALSE,
          buffer |-> [sampleRate |-> sampleRate, den |-> den,
                      channels |-> [c \in 1..channels |-> [i \in 1..length |-> 0]]]]

\* typedArray.set(source) at offset 0: source overwrites the head of target
TypedArraySet(target, source) ==
  [i \in 1..Len(target) |-> IF i <= Len(source) THEN source[i] ELSE target[i]]

-----------------------------------------------------------------------------
(* normalizeAudio                                                          *)

\* the peak search without Math.abs: negative peaks are not seen
PeakSigned(channelData) ==
  LET candidates == {0} \cup {channelData[i] : i \in 1..Len(channelData)}
  IN  CHOOSE max \in candidates : \A x \in candidates : x <= max

\* the loop "max = Math.max(max, Math.abs(channelData[i]))" started with
\* max = 0 leaves the largest of 0 and every |channelData[i]|
PeakAbs(channelData) ==
  LET candidates == {0} \cup {Abs(channelData[i]) : i \in 1..Len(channelData)}
  IN  CHOOSE max \in candidates : \A x \in candidates : x <= max

\* 0.95 as a fraction
TargetPeakNum == 19

TargetPeakDen == 20

\* the normalisation that copies a silent input into a new buffer
normalizeAudioAlwaysCopy(buf) ==
  LET channelData == getChannelData(buf, 0)
      max == PeakAbs(channelData)
      gainDen == IF max = 0 THEN buf.den ELSE TargetPeakDen * max * buf.den
      newBuffer == createBuffer(numberOfChannels(buf), BufferLength(buf),
                                buf.sampleRate, gainDen)
  IN  IF newBuffer = Throw THEN Throw
      ELSE [newBuffer EXCEPT !.buffer.channels =
              [c \in 1..numberOfChannels(buf) |->
                 [i \in 1..BufferLength(buf) |->
                    IF max = 0 THEN getChannelData(buf, c - 1)[i]
                    ELSE IF c - 1 = 0 THEN channelData[i] * TargetPeakNum * buf.den
                    ELSE getChannelData(buf, c - 1)[i] * TargetPeakDen * max]]]

\* gain = 0.95 / max with max = peak / den.  The new buffer's samples are
\* numerators over gainDen = TargetPeakDen * peak * den, which represents
\* both sample * gain (channel 0) and the copied channels exactly.
normalizeAudio(buf) ==
  LET channelData == getChannelData(buf, 0)
      max == PeakAbs(channelData)
      gainDen == TargetPeakDen * max * buf.den
      normalizedData == [i \in 1..Len(channelData) |->
                           channelData[i] * TargetPeakNum * buf.den]
      newBuffer == createBuffer(numberOfChannels(buf), BufferLength(buf),
                                buf.sampleRate, gainDen)
  IN  IF max = 0 THEN [kind |-> "buffer", same |-> TRUE, buffer |-> buf]
      ELSE IF newBuffer = Throw THEN Throw
      ELSE [newBuffer EXCEPT !.buffer.channels =
              [c \in 1..numberOfChannels(buf) |->
                 LET data == newBuffer.buffer.channels[c]
                     sourceData ==
                       IF c - 1 = 0 THEN normalizedData
                       ELSE [i \in 1..BufferLength(buf) |->
                               getChannelData(buf, c - 1)[i] * TargetPeakDen * max]
                 IN  TypedArraySet(data, sourceData)]]

-----------------------------------------------------------------------------
(* amplifyAudio: gain is the fraction gain.n / gain.d with gain.d > 0      *)

\* the amplification without the clamp
amplifyAudioUnclamped(buf, gain) ==
  LET den == buf.den * gain.d
      newBuffer == createBuffer(numberOfChannels(buf), BufferLength(buf),
                                buf.sampleRate, den)
  IN  IF newBuffer = Throw THEN Throw
      ELSE [newBuffer EXCEPT !.buffer.channels =
              [c \in 1..numberOfChannels(buf) |->
                 LET sourceData == getChannelData(buf, c - 1)
                     targetData == newBuffer.buffer.channels[c]
                 IN  [i \in 1..Len(targetData) |->
                        IF i <= Len(sourceData)
                          THEN sourceData[i] * gain.n
                          ELSE targetData[i]]]]

amplifyAudio(buf, gain) ==
  LET den == buf.den * gain.d
      newBuffer == createBuffer(numberOfChannels(buf), BufferLength(buf),
                                buf.sampleRate, den)
  IN  IF newBuffer = Throw THEN Throw
      ELSE [newBuffer EXCEPT !.buffer.channels =
              [c \in 1..numberOfChannels(buf) |->
                 LET sourceData == getChannelData(buf, c - 1)
                     targetData == newBuffer.buffer.channels[c]
                 IN  [i \in 1..Len(targetData) |->
                        IF i <= Len(sourceData)
                          THEN Clamp(sourceData[i] * gain.n, den)
                          ELSE targetData[i]]]]

-----------------------------------------------------------------------------
(* pitchShift and changeSpeed: ratio and speed are fractions n / d, d > 0  *)

\* Math.pow(2, semitones / 12).  Whole octaves are exact; for -2 semitones
\* (robotizeVoice) the fraction 3103/3483 stands for 2^(-1/6): it gives the
\* same Math.floor(length / ratio) and Math.floor(i * ratio) as the
\* program's double for every length below 3000.
PitchRatio(semitones) ==
  CASE semitones = 0 -> [n |-> 1, d |-> 1]
    [] semitones = 12 -> [n |-> 2, d |-> 1]
    [] semitones = -12 -> [n |-> 1, d |-> 2]
    [] semitones = 24 -> [n |-> 4, d |-> 1]
    [] semitones = 120 -> [n |-> 1024, d |-> 1]
    [] semitones = -2 -> [n |-> 3103, d |-> 3483]

\* Math.floor(length / ratio) as it reaches createBuffer: a division by 0
\* gives Infinity, which converts to a frame count of 0; a negative ratio
\* gives a negative number, which is no frame count either
NewLength(length, ratio) ==
  IF ratio.n > 0 THEN MathFloor(length * ratio.d, ratio.n)
  ELSE IF ratio.n = 0 THEN 0
  ELSE -((length * ratio.d + (-ratio.n) - 1) \div (-ratio.n))

\* the resampling without the final "sourceData[index] || 0" branch
ResampledSampleNoTail(sourceData, ratio, i) ==
  LET index == MathFloor(i * ratio.n, ratio.d)
      fraction == (i * ratio.n) % ratio.d
  IN  IF index + 1 < Len(sourceData)
        THEN sourceData[index + 1] * (ratio.d - fraction)
               + sourceData[index + 2] * fraction
        ELSE 0

\* the resampling with the weights 1 + fraction and -fraction
ResampledSampleExtrapolated(sourceData, ratio, i) ==
  LET index == MathFloor(i * ratio.n, ratio.d)
      fraction == (i * ratio.n) % ratio.d
  IN  IF index + 1 < Len(sourceData)
        THEN sourceData[index + 1] * (ratio.d + fraction)
               - sourceData[index + 2] * fraction
        ELSE ElementOrZero(sourceData, index) * ratio.d

\* the sample written to targetData[i], a numerator over den * ratio.d
ResampledSample(sourceData, ratio, i) ==
  LET index == MathFloor(i * ratio.n, ratio.d)
      fraction == (i * ratio.n) % ratio.d
  IN  IF index + 1 < Len(sourceData)
        THEN sourceData[index + 1] * (ratio.d - fraction)
               + sourceData[index + 2] * fraction
        ELSE ElementOrZero(sourceData, index) * ratio.d

\* pitchShift once its ratio Math.pow(2, semitones / 12) is known
pitchShiftBy(buf, ratio) ==
  LET newLength == NewLength(BufferLength(buf), ratio)
      newBuffer == createBuffer(numberOfChannels(buf), newLength,
                                buf.sampleRate, buf.den * ratio.d)
  IN  IF newBuffer = Throw THEN Throw
      ELSE [newBuffer EXCEPT !.buffer.channels =
              [c \in 1..numberOfChannels(buf) |->
                 LET sourceData == getChannelData(buf, c - 1)
                 IN  [i \in 1..newLength |->
                        ResampledSample(sourceData, ratio, i - 1)]]]

pitchShift(buf, semitones) == pitchShiftBy(buf, PitchRatio(semitones))

changeSpeed(buf, speed) ==
  LET newLength == NewLength(BufferLength(buf), speed)
      newBuffer == createBuffer(numberOfChannels(buf), newLength,
                                buf.sampleRate, buf.den * speed.d)
  IN  IF newBuffer = Throw THEN Throw
      ELSE [newBuffer EXCEPT !.buffer.channels =
              [c \in 1..numberOfChannels(buf) |->
                 LET sourceData == getChannelData(buf, c - 1)
                 IN  [i \in 1..newLength |->
                        ResampledSample(sourceData, speed, i - 1)]]]

-----------------------------------------------------------------------------
(* robotizeVoice and reduceNoise: offlineContext.startRendering() returns  *)
(* a new buffer of the context's shape.  The filters' arithmetic is the    *)
(* platform's; an outcome names the samples the rendering delivered.       *)

RenderOutcomes == {"silence", "through", "inverted"}

startRendering(buf, outcome) ==
  IF numberOfChannels(buf) < 1 \/ BufferLength(buf) < 1 THEN Throw
  ELSE [kind |-> "buffer", same |-> FALSE,
        buffer |-> [buf EXCEPT !.channels =
          [c \in 1..numberOfChannels(buf) |->
             [i \in 1..BufferLength(buf) |->
                CASE outcome = "silence" -> 0
                  [] outcome = "through" -> buf.channels[c][i]
                  [] outcome = "inverted" -> -buf.channels[c][i]]]]]

RobotSemitones == -2

robotizeVoice(buf, outcome) ==
  LET processedBuffer == startRendering(buf, outcome)
  IN  IF processedBuffer = Throw THEN Throw
      ELSE pitchShift(processedBuffer.buffer, RobotSemitones)

reduceNoise(buf, outcome) == startRendering(buf, outcome)

-----------------------------------------------------------------------------
(* trimAudio and cutAudio.  A time in seconds is either a dyadic fraction  *)
(* n / d (d a power of two, so that time * sampleRate is exact in a        *)
(* double) or the duration property of a buffer, the double nearest to     *)
(* length / sampleRate.                                                    *)

TimeDen == 65536

ExactTime(n) == [kind |-> "exact", n |-> n, d |-> TimeDen]

\* the earliest modelled time whose sample index is k
SampleTime(k, sampleRate) ==
  ExactTime((k * TimeDen + sampleRate - 1) \div sampleRate)

\* audioBuffer.duration
duration(buf) ==
  [kind |-> "duration", length |-> BufferLength(buf), sampleRate |-> buf.sampleRate]

FloorLog2(n) == CHOOSE k \in 0..29 : 2^k <= n /\ n < 2^(k + 1)

\* the binary exponent of the quotient length / rate
QuotientExponent(length, rate) ==
  IF length >= rate
    THEN CHOOSE j \in 0..29 : rate * 2^j <= length /\ length < rate * 2^(j + 1)
    ELSE -(CHOOSE t \in 1..30 : length * 2^t >= rate /\ length * 2^(t - 1) < rate)

RECURSIVE DoubleMod(_, _, _)
\* (rem * 2^steps) % rate, eight doublings at a time
DoubleMod(rem, rate, steps) ==
  IF steps = 0 THEN rem
  ELSE IF steps >= 8 THEN DoubleMod((256 * rem) % rate, rate, steps - 8)
  ELSE DoubleMod((2 * rem) % rate, rate, steps - 1)

DoubleMantissaBits == 52

\* Math.floor(duration * rate) for duration = length / rate, as IEEE-754
\* doubles give it: the quotient is rounded to 53 significant bits (ties to
\* even), and when it was rounded down by more than half a unit in the last
\* place of the product, the product rounds to the double below length and
\* its floor is length - 1.
DurationTimesRate(length, rate) ==
  LET j == QuotientExponent(length, rate)
      steps == DoubleMantissaBits - j
      previous == DoubleMod(length % rate, rate, steps - 1)
      rem == (2 * previous) % rate
      quotientOdd == 2 * previous >= rate
      roundedDown == IF 2 * rem = rate THEN ~quotientOdd ELSE 2 * rem < rate
      k == FloorLog2(length)
      e == k - j - 1 - (IF length = 2^k THEN 1 ELSE 0)
      beyondHalfUlp == IF e >= 30 THEN FALSE
                       ELSE IF e >= 0 THEN rem > 2^e
                       ELSE rem * 2^(-e) > 1
  IN  IF length = 0 \/ rem = 0 \/ ~roundedDown THEN length
      ELSE IF beyondHalfUlp THEN length - 1
      ELSE length

\* Math.floor(time * audioBuffer.sampleRate)
TimeToSample(time, sampleRate) ==
  IF time.kind = "duration" THEN DurationTimesRate(time.length, sampleRate)
  ELSE MathFloor(time.n * sampleRate, time.d)

\* TypedArray.prototype.subarray(begin, end): negative indices count from
\* the end, and both are clamped to the array
RelativeIndex(index, len) ==
  IF index < 0 THEN Max2(len + index, 0) ELSE Min2(index, len)

subarray(data, begin, end) ==
  LET from == RelativeIndex(begin, Len(data))
      to == RelativeIndex(end, Len(data))
  IN  [i \in 1..Max2(to - from, 0) |-> data[from + i]]

\* TypedArray.prototype.set(source, offset): a RangeError when the source
\* does not fit
TypedArraySetAt(target, source, offset) ==
  IF offset < 0 \/ Len(source) + offset > Len(target)
    THEN [rangeError |-> TRUE, data |-> target]
    ELSE [rangeError |-> FALSE,
          data |-> [i \in 1..Len(target) |->
                      IF i > offset /\ i <= offset + Len(source)
                        THEN source[i - offset]
                        ELSE target[i]]]

trimAudio(buf, startTime, endTime) ==
  LET startSample == TimeToSample(startTime, buf.sampleRate)
      endSample == TimeToSample(endTime, buf.sampleRate)
      length == endSample - startSample
      newBuffer == createBuffer(numberOfChannels(buf), length,
                                buf.sampleRate, buf.den)
      written == [c \in 1..numberOfChannels(buf) |->
                    TypedArraySetAt(newBuffer.buffer.channels[c],
                                    subarray(getChannelData(buf, c - 1),
                                             startSample, endSample),
                                    0)]
  IN  IF newBuffer = Throw THEN Throw
      ELSE IF \E c \in 1..numberOfChannels(buf) : written[c].rangeError
        THEN Throw
      ELSE [newBuffer EXCEPT !.buffer.channels =
              [c \in 1..numberOfChannels(buf) |-> written[c].data]]

cutAudio(buf, startTime, endTime) ==
  LET startSample == TimeToSample(startTime, buf.sampleRate)
      endSample == TimeToSample(endTime, buf.sampleRate)
      length == BufferLength(buf) - (endSample - startSample)
      newBuffer == createBuffer(numberOfChannels(buf), length,
                                buf.sampleRate, buf.den)
      written == [c \in 1..numberOfChannels(buf) |->
                    LET sourceData == getChannelData(buf, c - 1)
                        beforeCut == TypedArraySetAt(
                                       newBuffer.buffer.channels[c],
                                       subarray(sourceData, 0, startSample), 0)
                    IN  IF beforeCut.rangeError THEN beforeCut
                        ELSE TypedArraySetAt(
                               beforeCut.data,
                               subarray(sourceData, endSample, Len(sourceData)),
                               startSample)]
  IN  IF newBuffer = Throw THEN Throw
      ELSE IF \E c \in 1..numberOfChannels(buf) : written[c].rangeError
        THEN Throw
      ELSE [newBuffer EXCEPT !.buffer.channels =
              [c \in 1..numberOfChannels(buf) |-> written[c].data]]

-----------------------------------------------------------------------------
(* Text: a string is a sequence of one-character strings                   *)

Digits == <<"0", "1", "2", "3", "4", "5", "6", "7", "8", "9">>

RECURSIVE NumberToString(_)
\* v.toString() / `${v}` for an integer v >= 0
NumberToString(v) ==
  IF v < 10 THEN <<Digits[v + 1]>>
  ELSE NumberToString(v \div 10) \o <<Digits[(v % 10) + 1]>>

\* padEnd in place of padStart
PadEnd(s, targetLength, pad) ==
  IF Len(s) >= targetLength THEN s
  ELSE s \o [i \in 1..(targetLength - Len(s)) |-> pad]

\* s.padStart(targetLength, pad) for a one-character pad
PadStart(s, targetLength, pad) ==
  IF Len(s) >= targetLength THEN s
  ELSE [i \in 1..(targetLength - Len(s)) |-> pad] \o s

RECURSIVE Join(_, _)
\* parts.join(separator)
Join(parts, separator) ==
  IF Len(parts) = 0 THEN <<>>
  ELSE IF Len(parts) = 1 THEN parts[1]
  ELSE parts[1] \o separator \o Join(Tail(parts), separator)

\* typedArray.slice(begin, end) with 0 <= begin
Slice(data, begin, end) ==
  SubSeq(data, begin + 1, Min2(end, Len(data)))

\* "// PCM Audio Data - "
StrSamplesHeader ==
  <<"/", "/", " ", "P", "C", "M", " ", "A", "u", "d", "i", "o",
    " ", "D", "a", "t", "a", " ", "-", " ">>

\* " samples"
StrSamples ==
  <<" ", "s", "a", "m", "p", "l", "e", "s">>

\* "// Sample Rate: "
StrRateHeader ==
  <<"/", "/", " ", "S", "a", "m", "p", "l", "e", " ", "R", "a",
    "t", "e", ":", " ">>

\* " Hz"
StrHz ==
  <<" ", "H", "z">>

\* "// Format: 8-bit unsigned PCM"
StrFormat ==
  <<"/", "/", " ", "F", "o", "r", "m", "a", "t", ":", " ", "8",
    "-", "b", "i", "t", " ", "u", "n", "s", "i", "g", "n", "e",
    "d", " ", "P", "C", "M">>

\* "const uint8_t "
StrConstUint8 ==
  <<"c", "o", "n", "s", "t", " ", "u", "i", "n", "t", "8", "_",
    "t", " ">>

\* "[] = {"
StrOpenArray ==
  <<"[", "]", " ", "=", " ", "{">>

\* "};"
StrCloseArray ==
  <<"}", ";">>

\* "const size_t "
StrConstSize ==
  <<"c", "o", "n", "s", "t", " ", "s", "i", "z", "e", "_", "t",
    " ">>

\* "_length = "
StrLengthEq ==
  <<"_", "l", "e", "n", "g", "t", "h", " ", "=", " ">>

\* "audioData"
StrAudioData ==
  <<"a", "u", "d", "i", "o", "D", "a", "t", "a">>

\* "RIFF"
StrRIFF ==
  <<"R", "I", "F", "F">>

\* "WAVE"
StrWAVE ==
  <<"W", "A", "V", "E">>

\* "fmt "
StrFmt ==
  <<"f", "m", "t", " ">>

\* "data"
StrData ==
  <<"d", "a", "t", "a">>

\* character codes of the characters the WAV header writes
CharCode ==
  (" " :> 32) @@ ("A" :> 65) @@ ("E" :> 69) @@ ("F" :> 70) @@ ("I" :> 73)
  @@ ("R" :> 82) @@ ("V" :> 86) @@ ("W" :> 87) @@ ("a" :> 97) @@ ("d" :> 100)
  @@ ("f" :> 102) @@ ("m" :> 109) @@ ("t" :> 116)

\* string.charCodeAt(i)
charCodeAt(string, i) == CharCode[string[i + 1]]

-----------------------------------------------------------------------------
(* exportAsCArray                                                          *)

DefaultArrayName == StrAudioData

ChunkSize == 16

exportAsCArray(pcm, options) ==
  LET arrayName == IF "arrayName" \in DOMAIN options
                     THEN options.arrayName ELSE DefaultArrayName
      sampleRate == options.sampleRate
      length == Len(pcm)
      header == << StrSamplesHeader \o NumberToString(length) \o StrSamples,
                   StrRateHeader \o NumberToString(sampleRate) \o StrHz,
                   StrFormat,
                   StrConstUint8 \o arrayName \o StrOpenArray >>
      chunks == (length + ChunkSize - 1) \div ChunkSize
      ChunkLine(i) ==
        LET chunk == Slice(pcm, i, Min2(i + ChunkSize, length))
            values == Join([k \in 1..Len(chunk) |->
                              PadStart(NumberToString(chunk[k]), 3, " ")],
                           <<",", " ">>)
        IN  <<" ", " ">> \o values \o (IF i + ChunkSize < length THEN <<",">> ELSE <<>>)
      body == [k \in 1..chunks |-> ChunkLine((k - 1) * ChunkSize)]
      footer == << StrCloseArray,
                   StrConstSize \o arrayName \o StrLengthEq
                     \o NumberToString(length) \o <<";">> >>
  IN  Join(header \o body \o footer, <<"\n">>)

-----------------------------------------------------------------------------
(* exportAsWAV                                                             *)

\* DataView.setUint16(offset, v, true) / setUint32(offset, v, true): the
\* bytes written, least significant first.  Every value written here is
\* below 2^31, so the wrap at 2^32 never applies.
Uint16LE(v) == <<v % 256, (v \div 256) % 256>>

\* the four bytes most significant first
Uint32BE(v) ==
  <<(v \div 16777216) % 256, (v \div 65536) % 256, (v \div 256) % 256, v % 256>>

Uint32LE(v) ==
  <<v % 256, (v \div 256) % 256, (v \div 65536) % 256, (v \div 16777216) % 256>>

\* writeString(offset, string): one setUint8 per character
StringBytes(string) == [i \in 1..Len(string) |-> charCodeAt(string, i - 1)]

WavHeaderSize == 44

\* the writes into the ArrayBuffer, in program order: <<offset, bytes>>
WavWrites(pcm, sampleRate) ==
  << <<0, StringBytes(StrRIFF)>>,
     <<4, Uint32LE(36 + Len(pcm))>>,
     <<8, StringBytes(StrWAVE)>>,
     <<12, StringBytes(StrFmt)>>,
     <<16, Uint32LE(16)>>,
     <<20, Uint16LE(1)>>,
     <<22, Uint16LE(1)>>,
     <<24, Uint32LE(sampleRate)>>,
     <<28, Uint32LE(sampleRate)>>,
     <<32, Uint16LE(1)>>,
     <<34, Uint16LE(8)>>,
     <<36, StringBytes(StrData)>>,
     <<40, Uint32LE(Len(pcm))>>,
     <<44, pcm>> >>

\* new ArrayBuffer(size) is zero-filled; a byte holds what the last write
\* covering it stored
exportAsWAV(pcm, sampleRate) ==
  LET size == WavHeaderSize + Len(pcm)
      writes == WavWrites(pcm, sampleRate)
      Covers(k, p) == writes[k][1] <= p /\ p < writes[k][1] + Len(writes[k][2])
      ByteAt(p) ==
        LET ks == {k \in 1..Len(writes) : Covers(k, p)}
        IN  IF ks = {} THEN 0
            ELSE LET last == CHOOSE k \in ks : \A j \in ks : j <= k
                 IN  writes[last][2][p - writes[last][1] + 1]
  IN  [p \in 1..size |-> ByteAt(p - 1)]

-----------------------------------------------------------------------------
(* exportAsJSON: the object handed to JSON.stringify; duration is the      *)
(* fraction num / den                                                      *)

\* the document with duration computed as sampleRate / length
exportAsJSONInverseDuration(pcm, options) ==
  [sampleRate |-> options.sampleRate,
   bitDepth |-> 8,
   channels |-> 1,
   length |-> Len(pcm),
   duration |-> [num |-> options.sampleRate, den |-> Len(pcm)],
   data |-> [i \in 1..Len(pcm) |-> pcm[i]]]

exportAsJSON(pcm, options) ==
  [sampleRate |-> options.sampleRate,
   bitDepth |-> 8,
   channels |-> 1,
   length |-> Len(pcm),
   duration |-> [num |-> Len(pcm), den |-> options.sampleRate],
   data |-> [i \in 1..Len(pcm) |-> pcm[i]]]

-----------------------------------------------------------------------------
(* Inputs                                                                  *)

SeqsUpTo(S, n) == UNION {[1..k -> S] : k \in 0..n}

ConstSeq(n, v) == [i \in 1..n |-> v]

\* channel layouts for a given first channel: mono, or stereo with a
\* second channel that differs from the first
ChannelLayouts(ch0) ==
  { <<ch0>>,
    <<ch0, [i \in 1..Len(ch0) |-> -ch0[Len(ch0) + 1 - i]]>>,
    <<ch0, ConstSeq(Len(ch0), 20)>> }

SmallBuffers ==
  { [sampleRate |-> r, den |-> SampleDen, channels |-> chs] :
      r \in SourceRates,
      chs \in UNION {ChannelLayouts(c) : c \in SeqsUpTo(Samples, MaxLen)} }

\* 10 ms and 20 ms at 44100 Hz: a constant 0.5 and a cycle through Samples
LongLengths == {441, 882}

SampleCycle == <<0, 2, 20, -1, -4, -20>>

LongBuffers ==
  { [sampleRate |-> 44100, den |-> SampleDen, channels |-> <<ch0>>] :
      ch0 \in UNION { { ConstSeq(n, 2),
                        [i \in 1..n |-> SampleCycle[(i % 6) + 1]] } : n \in LongLengths } }

Buffers == SmallBuffers \cup LongBuffers

PatternPCM(n, a, b) == [i \in 1..n |-> (a + b * (i - 1)) % 256]

PcmLengths == (0..MaxPcmLen) \cup {32, 33}

PCMInputs ==
  { PatternPCM(n, a, b) : n \in PcmLengths, a \in {0, 128, 255}, b \in {0, 1, 37} }
    \cup SeqsUpTo({0, 128, 255}, 3)

ExportRates == PCMRates \cup {44100}

ArrayNames == { <<"x">>, <<"m", "y", "_", "1">> }

ExportOptionsSet ==
  { [sampleRate |-> r] : r \in PCMRates }
    \cup { [sampleRate |-> r, arrayName |-> a] : r \in PCMRates, a \in ArrayNames }

\* 1.5 (the editor's default), -2, 0.25, 0 and an extreme gain
Gains == { [n |-> 3, d |-> 2], [n |-> -2, d |-> 1], [n |-> 1, d |-> 4],
           [n |-> 0, d |-> 1], [n |-> 1000000, d |-> 1] }

\* the reciprocal 1 / gain of a gain other than 0, with a positive d
Reciprocal(gain) ==
  IF gain.n > 0 THEN [n |-> gain.d, d |-> gain.n]
  ELSE [n |-> -gain.d, d |-> -gain.n]

\* a buffer the platform can hold has at least one frame
ShortLength == 15

ShortBuffers ==
  { [sampleRate |-> 44100, den |-> SampleDen,
     channels |-> <<[i \in 1..ShortLength |-> SampleCycle[(i % 6) + 1]]>>] }

TransformBuffers ==
  {b \in Buffers : BufferLength(b) >= 1} \cup ShortBuffers

\* the editor's default 0, an octave down and up, two octaves, ten octaves
Semitones == {-12, 0, 12, 24, 120}

\* 0.5, the editor's default 1, 1.5, 2, and the values no slider offers
Speeds == { [n |-> 1, d |-> 2], [n |-> 1, d |-> 1], [n |-> 3, d |-> 2],
            [n |-> 2, d |-> 1], [n |-> 0, d |-> 1], [n |-> -1, d |-> 1] }

\* the editor starts with trimStart = 0 and trimEnd = audioBuffer.duration
StartTimes(buf) ==
  { SampleTime(k, buf.sampleRate) : k \in {0, 1, BufferLength(buf)} }

EndTimes(buf) ==
  { SampleTime(k, buf.sampleRate) :
      k \in {0, BufferLength(buf) - 1, BufferLength(buf), BufferLength(buf) + 1} }
    \cup {duration(buf)}

-----------------------------------------------------------------------------
(* useTextToSpeech: the history and its copy in localStorage.  An item is  *)
(* its id, the Date.now() of the playback's end; localStorage holds what   *)
(* JSON.parse returns for the value of 'tts-history', if there is one.     *)

HistoryLimit == 50

MaxPlays == 52

NoItem == [present |-> FALSE, items |-> <<>>]

StoredItem(items) == [present |-> TRUE, items |-> items]

\* array.slice() without a start: the whole array
SliceAll(array, count) == array

\* array.slice(-count): the last count elements
SliceLast(array, count) ==
  SubSeq(array, Max2(Len(array) - count, 0) + 1, Len(array))

\* prev.filter(item => item.id !== id)
FilterOut(array, id) == SelectSeq(array, LAMBDA item : item # id)

\* the effect on [history]: written only when the list is not empty
SaveHistory(newHistory, stored) ==
  IF Len(newHistory) > 0 THEN StoredItem(SliceLast(newHistory, HistoryLimit))
  ELSE stored

-----------------------------------------------------------------------------
(* State machine: draw an input, apply one function                        *)

\* the hook as it mounts, with an empty text and a silent engine
SpeechIdle ==
  /\ text = <<>>
  /\ chunksRef = <<>>
  /\ currentIndexRef = 0
  /\ utteranceRef = 0
  /\ isPlaying = FALSE
  /\ isPaused = FALSE
  /\ utterances = {}
  /\ spoken = 0
  /\ enginePaused = FALSE

\* the editor panel as it mounts: no file, trim range 0..0, nothing requested
EditorIdle ==
  /\ originalAudioBuffer = NoBuffer
  /\ trimStart = ExactTime(0)
  /\ trimEnd = ExactTime(0)
  /\ inFlight = {}
  /\ clicks = 0

Init ==
  /\ op = "input"
  /\ arg = [none |-> TRUE]
  /\ result = NoResult
  /\ \/ audioBuffer \in Buffers /\ pcmData = NoPCM
     \/ audioBuffer = NoBuffer /\ pcmData \in PCMInputs
  /\ history = <<>>
  /\ localStorage = NoItem
  /\ now = 0
  /\ EditorIdle
  /\ SpeechIdle

DoConvertToPCM ==
  /\ op = "input"
  /\ audioBuffer # NoBuffer
  /\ \E sampleRate \in PCMRates :
       /\ op' = "convertToPCM"
       /\ arg' = [sampleRate |-> sampleRate]
       /\ result' = [kind |-> "pcm", bytes |-> convertToPCM(audioBuffer, sampleRate)]
  /\ UNCHANGED <<audioBuffer, pcmData, history, localStorage, now, editorVars, speechVars>>

DoNormalizeAudio ==
  /\ op = "input"
  /\ audioBuffer # NoBuffer
  /\ op' = "normalizeAudio"
  /\ arg' = [none |-> TRUE]
  /\ result' = normalizeAudio(audioBuffer)
  /\ UNCHANGED <<audioBuffer, pcmData, history, localStorage, now, editorVars, speechVars>>

DoAmplifyAudio ==
  /\ op = "input"
  /\ audioBuffer # NoBuffer
  /\ \E gain \in Gains :
       /\ op' = "amplifyAudio"
       /\ arg' = [gain |-> gain]
       /\ result' = amplifyAudio(audioBuffer, gain)
  /\ UNCHANGED <<audioBuffer, pcmData, history, localStorage, now, editorVars, speechVars>>

DoExportAsWAV ==
  /\ op = "input"
  /\ pcmData # NoPCM
  /\ \E sampleRate \in ExportRates :
       /\ op' = "exportAsWAV"
       /\ arg' = [sampleRate |-> sampleRate]
       /\ result' = [kind |-> "blob", bytes |-> exportAsWAV(pcmData, sampleRate)]
  /\ UNCHANGED <<audioBuffer, pcmData, history, localStorage, now, editorVars, speechVars>>

DoExportAsCArray ==
  /\ op = "input"
  /\ pcmData # NoPCM
  /\ \E options \in ExportOptionsSet :
       /\ op' = "exportAsCArray"
       /\ arg' = [options |-> options]
       /\ result' = [kind |-> "text", text |-> exportAsCArray(pcmData, options)]
  /\ UNCHANGED <<audioBuffer, pcmData, history, localStorage, now, editorVars, speechVars>>

DoExportAsJSON ==
  /\ op = "input"
  /\ pcmData # NoPCM
  /\ \E options \in ExportOptionsSet :
       /\ op' = "exportAsJSON"
       /\ arg' = [options |-> options]
       /\ result' = [kind |-> "json", document |-> exportAsJSON(pcmData, options)]
  /\ UNCHANGED <<audioBuffer, pcmData, history, localStorage, now, editorVars, speechVars>>

DoAmplifyReciprocal ==
  /\ op = "amplifyAudio"
  /\ result # Throw
  /\ arg.gain.n # 0
  /\ op' = "amplifyReciprocal"
  /\ arg' = [gain |-> arg.gain, reciprocal |-> Reciprocal(arg.gain),
             amplified |-> result.buffer]
  /\ result' = amplifyAudio(result.buffer, Reciprocal(arg.gain))
  /\ UNCHANGED <<audioBuffer, pcmData, history, localStorage, now, editorVars, speechVars>>

DoPitchShift ==
  /\ op = "input"
  /\ audioBuffer # NoBuffer
  /\ \E semitones \in Semitones :
       /\ op' = "pitchShift"
       /\ arg' = [semitones |-> semitones]
       /\ result' = pitchShift(audioBuffer, semitones)
  /\ UNCHANGED <<audioBuffer, pcmData, history, localStorage, now, editorVars, speechVars>>

DoChangeSpeed ==
  /\ op = "input"
  /\ audioBuffer # NoBuffer
  /\ \E speed \in Speeds :
       /\ op' = "changeSpeed"
       /\ arg' = [speed |-> speed]
       /\ result' = changeSpeed(audioBuffer, speed)
  /\ UNCHANGED <<audioBuffer, pcmData, history, localStorage, now, editorVars, speechVars>>

DoRobotizeVoice ==
  /\ op = "input"
  /\ audioBuffer # NoBuffer
  /\ \E outcome \in RenderOutcomes :
       /\ op' = "robotizeVoice"
       /\ arg' = [rendered |-> startRendering(audioBuffer, outcome)]
       /\ result' = robotizeVoice(audioBuffer, outcome)
  /\ UNCHANGED <<audioBuffer, pcmData, history, localStorage, now, editorVars, speechVars>>

DoReduceNoise ==
  /\ op = "input"
  /\ audioBuffer # NoBuffer
  /\ \E outcome \in RenderOutcomes :
       /\ op' = "reduceNoise"
       /\ arg' = [outcome |-> outcome]
       /\ result' = reduceNoise(audioBuffer, outcome)
  /\ UNCHANGED <<audioBuffer, pcmData, history, localStorage, now, editorVars, speechVars>>

DoTrimAudio ==
  /\ op = "input"
  /\ audioBuffer # NoBuffer
  /\ \E startTime \in StartTimes(audioBuffer), endTime \in EndTimes(audioBuffer) :
       /\ op' = "trimAudio"
       /\ arg' = [startTime |-> startTime, endTime |-> endTime]
       /\ result' = trimAudio(audioBuffer, startTime, endTime)
  /\ UNCHANGED <<audioBuffer, pcmData, history, localStorage, now, editorVars, speechVars>>

DoCutAudio ==
  /\ op = "input"
  /\ audioBuffer # NoBuffer
  /\ \E startTime \in StartTimes(audioBuffer), endTime \in EndTimes(audioBuffer) :
       /\ op' = "cutAudio"
       /\ arg' = [startTime |-> startTime, endTime |-> endTime]
       /\ result' = cutAudio(audioBuffer, startTime, endTime)
  /\ UNCHANGED <<audioBuffer, pcmData, history, localStorage, now, editorVars, speechVars>>

Next ==
  \/ DoConvertToPCM
  \/ DoNormalizeAudio
  \/ DoAmplifyAudio
  \/ DoExportAsWAV
  \/ DoExportAsCArray
  \/ DoExportAsJSON

Spec == Init /\ [][Next]_vars

\* the transforms of the editor, each applied to a buffer the platform holds
InitTransform ==
  /\ op = "input"
  /\ arg = [none |-> TRUE]
  /\ result = NoResult
  /\ audioBuffer \in TransformBuffers
  /\ pcmData = NoPCM
  /\ history = <<>>
  /\ localStorage = NoItem
  /\ now = 0
  /\ EditorIdle
  /\ SpeechIdle

NextTransform ==
  \/ DoNormalizeAudio
  \/ DoAmplifyAudio
  \/ DoAmplifyReciprocal
  \/ DoPitchShift
  \/ DoChangeSpeed
  \/ DoRobotizeVoice
  \/ DoReduceNoise
  \/ DoTrimAudio
  \/ DoCutAudio

SpecTransform == InitTransform /\ [][NextTransform]_vars

\* the text-to-speech hook in a browser that has never stored a history
InitHistory ==
  /\ op = "input"
  /\ arg = [none |-> TRUE]
  /\ result = NoResult
  /\ audioBuffer = NoBuffer
  /\ pcmData = NoPCM
  /\ history = <<>>
  /\ localStorage = NoItem
  /\ now = 0
  /\ EditorIdle
  /\ SpeechIdle

\* speakChunk past the last chunk: the playback is complete
PlaybackCompleted ==
  /\ now < MaxPlays
  /\ now' = now + 1
  /\ history' = <<now'>> \o history
  /\ localStorage' = SaveHistory(history', localStorage)
  /\ op' = "speakChunk"
  /\ arg' = [id |-> now']
  /\ UNCHANGED <<audioBuffer, pcmData, result, editorVars, speechVars>>

\* deleteHistoryItem, asked for the oldest item shown
DeleteHistoryItem ==
  /\ Len(history) > 0
  /\ \E id \in {history[Len(history)]} :
       /\ history' = FilterOut(history, id)
       /\ op' = "deleteHistoryItem"
       /\ arg' = [id |-> id]
  /\ localStorage' = SaveHistory(history', localStorage)
  /\ UNCHANGED <<audioBuffer, pcmData, result, now, editorVars, speechVars>>

ClearHistory ==
  /\ history' = <<>>
  /\ localStorage' = SaveHistory(history', NoItem)
  /\ op' = "clearHistory"
  /\ arg' = [none |-> TRUE]
  /\ UNCHANGED <<audioBuffer, pcmData, result, now, editorVars, speechVars>>

\* the page is loaded again: the hook mounts with an empty history and
\* reads 'tts-history'
Reload ==
  /\ history' = IF localStorage.present THEN localStorage.items ELSE <<>>
  /\ localStorage' = SaveHistory(history', localStorage)
  /\ op' = "reload"
  /\ arg' = [none |-> TRUE]
  /\ UNCHANGED <<audioBuffer, pcmData, result, now, editorVars, speechVars>>

NextHistory ==
  \/ PlaybackCompleted
  \/ DeleteHistoryItem
  \/ ClearHistory
  \/ Reload

SpecHistory == InitHistory /\ [][NextHistory]_vars

-----------------------------------------------------------------------------
(* The audio editor panel (components/AudioEditorPanel.tsx).  A handler    *)
(* runs to its first await of the rendering engine as one step: the        *)
(* promises of normalizeAudio, amplifyAudio, pitchShift and changeSpeed    *)
(* are settled when they are returned, and the handler resumes before the  *)
(* browser dispatches another event.  offlineContext.startRendering()      *)
(* settles in a later task: until then the request is in flight, holding   *)
(* the buffer its handler read when it was called.                         *)

MaxClicks == 3

\* the largest denominator of a working buffer an effect is asked on
MaxDen == 5000

EditorFiles ==
  { [sampleRate |-> 12000, den |-> SampleDen, channels |-> << <<2, -4>> >>],
    [sampleRate |-> 44100, den |-> SampleDen, channels |-> << <<-1>> >>] }

VoiceStyleIds ==
  {"robot", "child", "chipmunk", "female", "male", "alien", "monster",
   "cartoon"}

\* the pitch and rate of the voice style presets, as fractions
voiceStyles(id) ==
  CASE id = "robot" -> [pitch |-> [n |-> 5, d |-> 10], rate |-> [n |-> 4, d |-> 5]]
    [] id = "child" -> [pitch |-> [n |-> 18, d |-> 10], rate |-> [n |-> 11, d |-> 10]]
    [] id = "chipmunk" -> [pitch |-> [n |-> 20, d |-> 10], rate |-> [n |-> 6, d |-> 5]]
    [] id = "female" -> [pitch |-> [n |-> 13, d |-> 10], rate |-> [n |-> 1, d |-> 1]]
    [] id = "male" -> [pitch |-> [n |-> 7, d |-> 10], rate |-> [n |-> 9, d |-> 10]]
    [] id = "alien" -> [pitch |-> [n |-> 4, d |-> 10], rate |-> [n |-> 7, d |-> 10]]
    [] id = "monster" -> [pitch |-> [n |-> 3, d |-> 10], rate |-> [n |-> 3, d |-> 5]]
    [] id = "cartoon" -> [pitch |-> [n |-> 15, d |-> 10], rate |-> [n |-> 13, d |-> 10]]

\* (style.pitch - 1) * 12, in tenths of a semitone
StyleSemitones(style) == (style.pitch.n - style.pitch.d) * 12

\* Math.pow(2, semitones / 12) for the semitones of the presets: fractions
\* that give the lengths and indices of the doubles for sources of up to 32
\* samples (as do the rates above)
StylePitchRatio(tenths) ==
  CASE tenths = -60 -> [n |-> 70, d |-> 99]
    [] tenths = 96 -> [n |-> 101, d |-> 58]
    [] tenths = 120 -> [n |-> 2, d |-> 1]
    [] tenths = 36 -> [n |-> 69, d |-> 56]
    [] tenths = -36 -> [n |-> 69, d |-> 85]
    [] tenths = -72 -> [n |-> 64, d |-> 97]
    [] tenths = -84 -> [n |-> 69, d |-> 112]
    [] tenths = 60 -> [n |-> 99, d |-> 70]

AsResult(buf) == [kind |-> "buffer", same |-> FALSE, buffer |-> buf]

\* a voice style that keeps the pitch-shifted buffer when the speed step
\* throws
StyleStepsKeepPartial(original, styleId) ==
  LET style == voiceStyles(styleId)
      semitones == StyleSemitones(style)
      pitched == IF semitones # 0
                   THEN pitchShiftBy(original, StylePitchRatio(semitones))
                   ELSE AsResult(original)
      sped == IF pitched = Throw THEN Throw
              ELSE changeSpeed(pitched.buffer, style.rate)
  IN  IF pitched = Throw THEN Throw
      ELSE IF style.rate.n # style.rate.d /\ sped # Throw THEN sped
      ELSE pitched

\* applyVoiceStyle from "let processed = originalAudioBuffer" to the call of
\* robotizeVoice: the pitch step, then the speed step
StyleSteps(original, styleId) ==
  LET style == voiceStyles(styleId)
      semitones == StyleSemitones(style)
      pitched == IF semitones # 0
                   THEN pitchShiftBy(original, StylePitchRatio(semitones))
                   ELSE AsResult(original)
  IN  IF pitched = Throw THEN Throw
      ELSE IF style.rate.n # style.rate.d
        THEN changeSpeed(pitched.buffer, style.rate)
      ELSE pitched

EditorGains == {[n |-> 3, d |-> 2]}
EditorSemitones == {-12, 12}
EditorSpeeds == {[n |-> 1, d |-> 2], [n |-> 2, d |-> 1]}

\* the settings an effect reads: the sliders' values and the trim fields
EffectSettings(effect) ==
  CASE effect = "amplify" -> EditorGains
    [] effect = "pitch" -> EditorSemitones
    [] effect = "speed" -> EditorSpeeds
    [] OTHER -> {0}

\* the switch of applyEffect for the effects that need no rendering
EffectResult(effect, buf, setting, startTime, endTime) ==
  CASE effect = "normalize" -> normalizeAudio(buf)
    [] effect = "amplify" -> amplifyAudio(buf, setting)
    [] effect = "pitch" -> pitchShift(buf, setting)
    [] effect = "speed" -> changeSpeed(buf, setting)
    [] effect = "trim" -> trimAudio(buf, startTime, endTime)

\* what the awaited rendering does: it delivers samples, or its promise is
\* rejected
EditorRenderOutcomes == RenderOutcomes \cup {"rejected"}

\* the rest of robotizeVoice or reduceNoise once the rendering has settled
RenderedResult(request, outcome) ==
  IF outcome = "rejected" THEN Throw
  ELSE IF request.name = "noise" THEN reduceNoise(request.input, outcome)
  ELSE robotizeVoice(request.input, outcome)

InitEditor ==
  /\ op = "input"
  /\ arg = [none |-> TRUE]
  /\ result = NoResult
  /\ audioBuffer = NoBuffer
  /\ pcmData = NoPCM
  /\ history = <<>>
  /\ localStorage = NoItem
  /\ now = 0
  /\ EditorIdle
  /\ SpeechIdle

\* handleFileUpload after loadAudioFile has decoded the file, and the
\* recorder's onstop after decodeAudioData has decoded the recording
HandleFileUpload ==
  /\ clicks < MaxClicks
  /\ \E buffer \in EditorFiles :
       /\ originalAudioBuffer' = buffer
       /\ audioBuffer' = buffer
       /\ trimEnd' = duration(buffer)
       /\ trimStart' = ExactTime(0)
       /\ op' = "handleFileUpload"
       /\ arg' = [buffer |-> buffer]
       /\ result' = AsResult(buffer)
  /\ clicks' = clicks + 1
  /\ UNCHANGED <<pcmData, history, localStorage, now, inFlight, speechVars>>

\* applyEffect for normalize, amplify, pitch, speed and trim
ApplyEffect ==
  /\ clicks < MaxClicks
  /\ audioBuffer # NoBuffer
  /\ audioBuffer.den <= MaxDen
  /\ \E effect \in {"normalize", "amplify", "pitch", "speed", "trim"} :
       \E setting \in EffectSettings(effect) :
         LET processed == EffectResult(effect, audioBuffer, setting,
                                       trimStart, trimEnd)
         IN  /\ op' = "applyEffect"
             /\ arg' = [effect |-> effect, setting |-> setting,
                        audioBuffer |-> audioBuffer,
                        trimStart |-> trimStart, trimEnd |-> trimEnd]
             /\ result' = processed
             /\ IF processed = Throw
                  THEN UNCHANGED <<audioBuffer, trimEnd>>
                  ELSE /\ audioBuffer' = processed.buffer
                       /\ trimEnd' = duration(processed.buffer)
  /\ clicks' = clicks + 1
  /\ UNCHANGED <<pcmData, history, localStorage, now, originalAudioBuffer,
                 trimStart, inFlight, speechVars>>

\* applyEffect for robot and noise, up to the await of startRendering
ApplyEffectRendering ==
  /\ clicks < MaxClicks
  /\ audioBuffer # NoBuffer
  /\ audioBuffer.den <= MaxDen
  /\ \E effect \in {"robot", "noise"} :
       /\ inFlight' = inFlight \cup
            {[id |-> clicks, kind |-> "effect", name |-> effect,
              from |-> audioBuffer, input |-> audioBuffer]}
       /\ op' = "applyEffect"
       /\ arg' = [effect |-> effect, setting |-> 0, audioBuffer |-> audioBuffer,
                  trimStart |-> trimStart, trimEnd |-> trimEnd]
       /\ result' = NoResult
  /\ clicks' = clicks + 1
  /\ UNCHANGED <<audioBuffer, pcmData, history, localStorage, now,
                 originalAudioBuffer, trimStart, trimEnd, speechVars>>

\* a voice style that starts from the working buffer
StyleSourceWorking == audioBuffer

\* "let processed = originalAudioBuffer"
StyleSource == originalAudioBuffer

\* applyVoiceStyle: the robot style stops at the await of startRendering,
\* every other style runs to its end
ApplyVoiceStyle ==
  /\ clicks < MaxClicks
  /\ originalAudioBuffer # NoBuffer
  /\ \E styleId \in VoiceStyleIds :
       LET processed == StyleSteps(StyleSource, styleId)
       IN  /\ op' = "applyVoiceStyle"
           /\ arg' = [styleId |-> styleId, audioBuffer |-> audioBuffer,
                      originalAudioBuffer |-> originalAudioBuffer]
           /\ IF processed = Throw
                THEN /\ result' = Throw
                     /\ UNCHANGED <<audioBuffer, trimEnd, inFlight>>
                ELSE IF styleId = "robot"
                  THEN /\ result' = NoResult
                       /\ inFlight' = inFlight \cup
                            {[id |-> clicks, kind |-> "style", name |-> styleId,
                              from |-> StyleSource,
                              input |-> processed.buffer]}
                       /\ UNCHANGED <<audioBuffer, trimEnd>>
                ELSE /\ result' = processed
                     /\ audioBuffer' = processed.buffer
                     /\ trimEnd' = duration(processed.buffer)
                     /\ UNCHANGED inFlight
  /\ clicks' = clicks + 1
  /\ UNCHANGED <<pcmData, history, localStorage, now, originalAudioBuffer,
                 trimStart, speechVars>>

\* startRendering settles and the handler that awaited it runs to its end
RenderingCompleted ==
  /\ \E request \in inFlight :
       \E outcome \in EditorRenderOutcomes :
         LET processed == RenderedResult(request, outcome)
         IN  /\ inFlight' = inFlight \ {request}
             /\ op' = "renderingCompleted"
             /\ arg' = [request |-> request, outcome |-> outcome,
                        audioBuffer |-> audioBuffer,
                        originalAudioBuffer |-> originalAudioBuffer]
             /\ result' = processed
             /\ IF processed = Throw
                  THEN UNCHANGED <<audioBuffer, trimEnd>>
                  ELSE /\ audioBuffer' = processed.buffer
                       /\ trimEnd' = duration(processed.buffer)
  /\ UNCHANGED <<pcmData, history, localStorage, now, originalAudioBuffer,
                 trimStart, clicks, speechVars>>

\* a reset that restores the buffer and leaves the trim fields alone
HandleResetSettingsKeepTrim ==
  /\ op' = "handleResetSettings"
  /\ arg' = [audioBuffer |-> audioBuffer]
  /\ result' = NoResult
  /\ IF originalAudioBuffer # NoBuffer
       THEN audioBuffer' = originalAudioBuffer
       ELSE UNCHANGED audioBuffer
  /\ UNCHANGED <<pcmData, history, localStorage, now, originalAudioBuffer,
                 trimStart, trimEnd, inFlight, clicks, speechVars>>

HandleResetSettings ==
  /\ op' = "handleResetSettings"
  /\ arg' = [audioBuffer |-> audioBuffer]
  /\ result' = NoResult
  /\ IF originalAudioBuffer # NoBuffer
       THEN /\ audioBuffer' = originalAudioBuffer
            /\ trimStart' = ExactTime(0)
            /\ trimEnd' = duration(originalAudioBuffer)
       ELSE UNCHANGED <<audioBuffer, trimStart, trimEnd>>
  /\ UNCHANGED <<pcmData, history, localStorage, now, originalAudioBuffer,
                 inFlight, clicks, speechVars>>

\* the times typed into a trim field: the first instants of samples 0, 1, 2
TrimTimes(buf) == {SampleTime(k, buf.sampleRate) : k \in 0..2}

\* onChange of the Start field
SetTrimStart ==
  /\ audioBuffer # NoBuffer
  /\ \E time \in TrimTimes(audioBuffer) :
       /\ trimStart' = time
       /\ op' = "setTrimStart"
       /\ arg' = [time |-> time]
       /\ result' = NoResult
  /\ UNCHANGED <<audioBuffer, pcmData, history, localStorage, now,
                 originalAudioBuffer, trimEnd, inFlight, clicks, speechVars>>

\* onChange of the End field
SetTrimEnd ==
  /\ audioBuffer # NoBuffer
  /\ \E time \in TrimTimes(audioBuffer) :
       /\ trimEnd' = time
       /\ op' = "setTrimEnd"
       /\ arg' = [time |-> time]
       /\ result' = NoResult
  /\ UNCHANGED <<audioBuffer, pcmData, history, localStorage, now,
                 originalAudioBuffer, trimStart, inFlight, clicks, speechVars>>

NextEditor ==
  \/ HandleFileUpload
  \/ ApplyEffect
  \/ ApplyEffectRendering
  \/ ApplyVoiceStyle
  \/ RenderingCompleted
  \/ HandleResetSettings
  \/ SetTrimStart
  \/ SetTrimEnd

SpecEditor == InitEditor /\ [][NextEditor]_vars

-----------------------------------------------------------------------------
(* Vocabulary of the properties                                            *)

Converted == op = "convertToPCM"

SourceData == getChannelData(audioBuffer, 0)

\* the integer k with k <= n / d < k + 1, for d > 0
IsFloorOf(k, n, d) == k * d <= n /\ n < (k + 1) * d

\* b is n / d rounded to the nearest integer, a tie going up
IsRoundOf(b, n, d) == (2 * b - 1) * d <= 2 * n /\ 2 * n < (2 * b + 1) * d

\* source index and fraction numerator (over the target rate) of output i
SourceIndexOf(i) == (i * audioBuffer.sampleRate) \div arg.sampleRate

FractionOf(i) == i * audioBuffer.sampleRate - SourceIndexOf(i) * arg.sampleRate

HasNext(i) == SourceIndexOf(i) + 1 < Len(SourceData)

\* C1: convertToPCM returns exactly floor(L * Rt / Rs) bytes; one second
\* at 44100 Hz converted at 8000 Hz gives 8000 bytes.
C1_PcmLength ==
  /\ Converted =>
       IsFloorOf(Len(result.bytes), Len(SourceData) * arg.sampleRate,
                 audioBuffer.sampleRate)
  /\ TargetLength(44100, 8000, 44100) = 8000

C1_Witness ==
  /\ Converted
  /\ Len(result.bytes) > 0
  /\ (Len(SourceData) * arg.sampleRate) % audioBuffer.sampleRate # 0

\* C2: every byte of convertToPCM's output is in 0..255; an output whose
\* contributing source samples are all >= 1 is 255, and one whose
\* contributing source samples are all <= -1 is 0.
C2_ByteRange ==
  Converted =>
    \A j \in 1..Len(result.bytes) :
      LET i == j - 1
          idx == SourceIndexOf(i)
          used == IF HasNext(i) THEN {idx + 1, idx + 2} ELSE {idx + 1}
      IN  /\ result.bytes[j] \in 0..255
          /\ (\A k \in used : SourceData[k] >= audioBuffer.den)
               => result.bytes[j] = 255
          /\ (\A k \in used : SourceData[k] <= -audioBuffer.den)
               => result.bytes[j] = 0

C2_Witness ==
  /\ Converted
  /\ \E j \in 1..Len(result.bytes) :
       /\ SourceData[SourceIndexOf(j - 1) + 1] = 5 * audioBuffer.den
       /\ result.bytes[j] = 255
  /\ \E j \in 1..Len(result.bytes) :
       /\ SourceData[SourceIndexOf(j - 1) + 1] = -5 * audioBuffer.den
       /\ result.bytes[j] = 0

\* C3: for every output index i, idx = floor(i * Rs / Rt) is below L, the
\* sample is src[idx] * (1 - frac) + src[idx + 1] * frac when idx + 1 < L
\* and src[idx] otherwise, and the byte is round((clamp(sample) + 1) * 127.5).
C3_Interpolation ==
  Converted =>
    \A j \in 1..Len(result.bytes) :
      LET i == j - 1
          rt == arg.sampleRate
          d == audioBuffer.den * rt
          idx == SourceIndexOf(i)
          frac == FractionOf(i)
          sample == IF HasNext(i)
                      THEN SourceData[idx + 1] * (rt - frac) + SourceData[idx + 2] * frac
                      ELSE SourceData[idx + 1] * rt
          clamped == IF sample > d THEN d ELSE IF sample < -d THEN -d ELSE sample
      IN  /\ idx < Len(SourceData)
          /\ IsRoundOf(result.bytes[j], (clamped + d) * 255, 2 * d)

C3_Witness ==
  /\ Converted
  /\ \E j \in 1..Len(result.bytes) :
       /\ HasNext(j - 1)
       /\ FractionOf(j - 1) # 0
       /\ SourceData[SourceIndexOf(j - 1) + 1] # SourceData[SourceIndexOf(j - 1) + 2]
  /\ \E j \in 1..Len(result.bytes) : ~HasNext(j - 1) /\ FractionOf(j - 1) # 0

\* buffers that agree with buf on channel 0 and the sample rate and differ
\* in the number or the contents of the other channels
OtherChannelVariants(buf) ==
  LET ch0 == getChannelData(buf, 0)
      others == IF Len(ch0) <= MaxLen THEN [1..Len(ch0) -> Samples] ELSE {}
  IN  { [buf EXCEPT !.channels = chs] :
          chs \in ChannelLayouts(ch0)
                    \cup { <<ch0, o>> : o \in others }
                    \cup { <<ch0, o, ch0>> : o \in others } }

\* C4: convertToPCM's output depends only on channel 0 and the two rates:
\* buffers that differ only in their other channels give the same bytes.
C4_ChannelZeroOnly ==
  Converted =>
    \A other \in OtherChannelVariants(audioBuffer) :
      convertToPCM(other, arg.sampleRate) = result.bytes

C4_Witness ==
  /\ Converted
  /\ numberOfChannels(audioBuffer) = 2
  /\ getChannelData(audioBuffer, 1) # getChannelData(audioBuffer, 0)
  /\ Len(result.bytes) > 0
  /\ \E j \in 1..Len(result.bytes) : result.bytes[j] # 255

IsConstant(data, c) == Len(data) >= 1 /\ \A i \in 1..Len(data) : data[i] = c

\* C5: a source whose channel 0 is one constant c in [-1, 1] converts to
\* bytes that all equal round((c + 1) * 127.5), the last output included;
\* for c = 0.5 every byte is 191, and two seconds at 44100 Hz converted at
\* 8000 Hz give 16000 bytes.
C5_ConstantSignal ==
  /\ Converted =>
       \A c \in -audioBuffer.den..audioBuffer.den :
         IsConstant(SourceData, c) =>
           \A j \in 1..Len(result.bytes) :
             /\ IsRoundOf(result.bytes[j], (c + audioBuffer.den) * 255,
                          2 * audioBuffer.den)
             /\ 2 * c = audioBuffer.den => result.bytes[j] = 191
  /\ TargetLength(2 * 44100, 8000, 44100) = 16000

C5_Witness ==
  /\ Converted
  /\ IsConstant(SourceData, 2) /\ audioBuffer.den = 4
  /\ Len(result.bytes) > 1
  /\ ~HasNext(Len(result.bytes) - 1)
  /\ result.bytes[Len(result.bytes)] = 191

-----------------------------------------------------------------------------

\* little-endian values read back from a byte sequence at a 0-based offset
ReadUint16LE(bytes, offset) == bytes[offset + 1] + 256 * bytes[offset + 2]

ReadUint32LE(bytes, offset) ==
  bytes[offset + 1] + 256 * bytes[offset + 2]
    + 65536 * bytes[offset + 3] + 16777216 * bytes[offset + 4]

\* C6: exportAsWAV returns 44 + |pcm| bytes: the canonical little-endian
\* RIFF/WAVE header for 8-bit mono PCM at the given rate, then pcm verbatim
\* from offset 44; the RIFF size is the total length - 8 and the data size
\* is the payload length.
C6_WavLayout ==
  op = "exportAsWAV" =>
    LET b == result.bytes
        n == Len(pcmData)
    IN  /\ Len(b) = 44 + n
        /\ SubSeq(b, 1, 4) = <<82, 73, 70, 70>>
        /\ ReadUint32LE(b, 4) = 36 + n
        /\ ReadUint32LE(b, 4) = Len(b) - 8
        /\ SubSeq(b, 9, 12) = <<87, 65, 86, 69>>
        /\ SubSeq(b, 13, 16) = <<102, 109, 116, 32>>
        /\ ReadUint32LE(b, 16) = 16
        /\ ReadUint16LE(b, 20) = 1
        /\ ReadUint16LE(b, 22) = 1
        /\ ReadUint32LE(b, 24) = arg.sampleRate
        /\ ReadUint32LE(b, 28) = arg.sampleRate
        /\ ReadUint16LE(b, 32) = 1
        /\ ReadUint16LE(b, 34) = 8
        /\ SubSeq(b, 37, 40) = <<100, 97, 116, 97>>
        /\ ReadUint32LE(b, 40) = n
        /\ SubSeq(b, 45, Len(b)) = pcmData
        /\ \A p \in 1..Len(b) : b[p] \in 0..255

C6_Witness ==
  /\ op = "exportAsWAV"
  /\ arg.sampleRate = 16000
  /\ Len(pcmData) >= 3
  /\ \E p \in 1..Len(pcmData) : pcmData[p] # 0

-----------------------------------------------------------------------------
(* Reading exported text back                                              *)

\* the lines of a text: the pieces between its newline characters
TextLines(str) ==
  LET breaks == {p \in 1..Len(str) : str[p] = "\n"}
      Break(k) == IF k = 0 THEN 0
                  ELSE IF k > Cardinality(breaks) THEN Len(str) + 1
                  ELSE CHOOSE p \in breaks : Cardinality({q \in breaks : q < p}) = k - 1
  IN  [k \in 1..(Cardinality(breaks) + 1) |-> SubSeq(str, Break(k - 1) + 1, Break(k) - 1)]

IsDigit(c) == \E d \in 1..10 : Digits[d] = c

DigitValue(c) == (CHOOSE d \in 1..10 : Digits[d] = c) - 1

RECURSIVE ParseUint(_)
ParseUint(s) ==
  IF Len(s) = 0 THEN 0
  ELSE 10 * ParseUint(SubSeq(s, 1, Len(s) - 1)) + DigitValue(s[Len(s)])

IsNumeral(s) ==
  /\ Len(s) >= 1
  /\ \A i \in 1..Len(s) : IsDigit(s[i])
  /\ Len(s) > 1 => s[1] # "0"

\* a value of a C array line: a numeral behind the spaces that pad it
Unpadded(token) ==
  LET spaces == Cardinality({i \in 1..Len(token) : \A k \in 1..i : token[k] = " "})
  IN  SubSeq(token, spaces + 1, Len(token))

\* a value line without its indent and without the comma that ends every
\* line but the last
ValueLineBody(line, isLast) ==
  SubSeq(line, 3, IF isLast THEN Len(line) ELSE Len(line) - 1)

ValueCount(line, isLast) == (Len(ValueLineBody(line, isLast)) + 2) \div 5

ValueToken(line, isLast, t) ==
  SubSeq(ValueLineBody(line, isLast), 5 * (t - 1) + 1, 5 * (t - 1) + 3)

WellFormedValueLine(line, isLast) ==
  LET body == ValueLineBody(line, isLast)
      m == ValueCount(line, isLast)
  IN  /\ Len(line) >= 5
      /\ SubSeq(line, 1, 2) = <<" ", " ">>
      /\ ~isLast => line[Len(line)] = ","
      /\ Len(body) = 5 * m - 2
      /\ \A t \in 1..m :
           /\ IsNumeral(Unpadded(ValueToken(line, isLast, t)))
           /\ t < m => SubSeq(body, 5 * (t - 1) + 4, 5 * (t - 1) + 5) = <<",", " ">>

\* C7: exportAsCArray emits, after the three comment lines, the line
\* "const uint8_t <arrayName>[] = {", ceil(N / 16) value lines holding the
\* bytes in order, 16 on every line but possibly the last, each padded to
\* width 3 and comma-separated, every value line but the last ending with
\* a comma, then "};" and "const size_t <arrayName>_length = N;"; the name
\* is audioData when omitted; the values read back are pcm and their count
\* is the declared length.
C7_CArrayLayout ==
  op = "exportAsCArray" =>
    LET lines == TextLines(result.text)
        N == Len(pcmData)
        name == IF "arrayName" \in DOMAIN arg.options
                  THEN arg.options.arrayName
                  ELSE <<"a", "u", "d", "i", "o", "D", "a", "t", "a">>
        k == CHOOSE c \in 0..N : 16 * (c - 1) < N /\ N <= 16 * c
        lengthLine == lines[Len(lines)]
        prefix == StrConstSize \o name \o StrLengthEq
        declared == SubSeq(lengthLine, Len(prefix) + 1, Len(lengthLine) - 1)
        Count(v) == ValueCount(lines[4 + v], v = k)
    IN  /\ Len(lines) = 6 + k
        /\ \A h \in 1..3 : SubSeq(lines[h], 1, 2) = <<"/", "/">>
        /\ lines[4] = StrConstUint8 \o name \o StrOpenArray
        /\ \A v \in 1..k :
             /\ WellFormedValueLine(lines[4 + v], v = k)
             /\ v < k => Count(v) = 16
             /\ Count(v) \in 1..16
        /\ \A i \in 1..N :
             ParseUint(Unpadded(ValueToken(lines[4 + ((i - 1) \div 16) + 1],
                                           ((i - 1) \div 16) + 1 = k,
                                           ((i - 1) % 16) + 1))) = pcmData[i]
        /\ lines[5 + k] = <<"}", ";">>
        /\ SubSeq(lengthLine, 1, Len(prefix)) = prefix
        /\ lengthLine[Len(lengthLine)] = ";"
        /\ IsNumeral(declared)
        /\ ParseUint(declared) = N
        /\ (IF k = 0 THEN 0 ELSE 16 * (k - 1) + Count(k)) = ParseUint(declared)

C7_Witness ==
  /\ op = "exportAsCArray"
  /\ Len(pcmData) > 16
  /\ Len(pcmData) % 16 # 0
  /\ "arrayName" \notin DOMAIN arg.options
  /\ \E i \in 1..Len(pcmData) : pcmData[i] < 10
  /\ \E i \in 1..Len(pcmData) : pcmData[i] > 99

\* C8: exportAsJSON produces a document with the given sampleRate,
\* bitDepth 8, channels 1, length = |pcm|, duration = |pcm| / sampleRate
\* and data = the bytes in order, so length is the number of elements of
\* data and data read back is pcm.
C8_JsonDocument ==
  op = "exportAsJSON" =>
    LET doc == result.document
    IN  /\ doc.sampleRate = arg.options.sampleRate
        /\ doc.bitDepth = 8
        /\ doc.channels = 1
        /\ doc.length = Len(pcmData)
        /\ doc.duration.num * arg.options.sampleRate = Len(pcmData) * doc.duration.den
        /\ doc.duration.den > 0
        /\ doc.data = pcmData
        /\ doc.length = Len(doc.data)

C8_Witness ==
  /\ op = "exportAsJSON"
  /\ Len(pcmData) >= 3
  /\ \E i \in 1..Len(pcmData) : pcmData[i] # pcmData[1]

-----------------------------------------------------------------------------

\* out / outDen = clamp(n / d, -1, 1), for positive denominators
IsClampOf(out, outDen, n, d) ==
  IF n > d THEN out = outDen
  ELSE IF n < -d THEN out = -outDen
  ELSE out * d = n * outDen

\* C9: amplifyAudio returns a buffer with the channel count, length and
\* sample rate of its input in which every sample of every channel is
\* clamp(input * gain, -1, 1); an extreme gain saturates, it does not fail.
C9_Amplify ==
  (op = "amplifyAudio" /\ BufferLength(audioBuffer) >= 1) =>
    /\ result.kind = "buffer"
    /\ result.buffer.sampleRate = audioBuffer.sampleRate
    /\ Len(result.buffer.channels) = Len(audioBuffer.channels)
    /\ \A c \in 1..Len(audioBuffer.channels) :
         /\ Len(result.buffer.channels[c]) = Len(audioBuffer.channels[c])
         /\ \A i \in 1..Len(audioBuffer.channels[c]) :
              /\ IsClampOf(result.buffer.channels[c][i], result.buffer.den,
                           audioBuffer.channels[c][i] * arg.gain.n,
                           audioBuffer.den * arg.gain.d)
              /\ (arg.gain.n >= 1000000 /\ audioBuffer.channels[c][i] # 0)
                   => Abs(result.buffer.channels[c][i]) = result.buffer.den

C9_Witness ==
  /\ op = "amplifyAudio"
  /\ result.kind = "buffer"
  /\ Len(audioBuffer.channels) = 2
  /\ \E c \in 1..2 : \E i \in 1..Len(audioBuffer.channels[c]) :
       /\ Abs(audioBuffer.channels[c][i]) < audioBuffer.den
       /\ Abs(result.buffer.channels[c][i]) = result.buffer.den
  /\ \E i \in 1..Len(audioBuffer.channels[2]) :
       Abs(result.buffer.channels[2][i]) < result.buffer.den
         /\ result.buffer.channels[2][i] # 0

IsPeakOf(m, data) ==
  /\ m >= 0
  /\ \A i \in 1..Len(data) : Abs(data[i]) <= m
  /\ m > 0 => \E i \in 1..Len(data) : Abs(data[i]) = m

\* C10: normalizeAudio takes max as the peak |sample| of channel 0 only.
\* With max = 0 it returns its input; otherwise channel 0 of the result is
\* input * (0.95 / max), so its peak is exactly 0.95, every other channel
\* is copied unchanged, and channel count, length and rate are preserved.
C10_Normalize ==
  op = "normalizeAudio" =>
    \A m \in 0..(5 * audioBuffer.den) :
      IsPeakOf(m, SourceData) =>
        IF m = 0
          THEN result.kind = "buffer" /\ result.same /\ result.buffer = audioBuffer
          ELSE
            /\ result.kind = "buffer" /\ ~result.same
            /\ result.buffer.sampleRate = audioBuffer.sampleRate
            /\ Len(result.buffer.channels) = Len(audioBuffer.channels)
            /\ \A c \in 1..Len(audioBuffer.channels) :
                 Len(result.buffer.channels[c]) = Len(audioBuffer.channels[c])
            /\ \A i \in 1..Len(SourceData) :
                 result.buffer.channels[1][i] * 20 * m
                   = 19 * SourceData[i] * result.buffer.den
            /\ \E p \in 0..result.buffer.den :
                 IsPeakOf(p, result.buffer.channels[1]) /\ 20 * p = 19 * result.buffer.den
            /\ \A c \in 2..Len(audioBuffer.channels) :
                 \A i \in 1..Len(audioBuffer.channels[c]) :
                   result.buffer.channels[c][i] * audioBuffer.den
                     = audioBuffer.channels[c][i] * result.buffer.den

C10_Witness ==
  /\ op = "normalizeAudio"
  /\ result.kind = "buffer" /\ ~result.same
  /\ Len(audioBuffer.channels) = 2
  /\ \E i \in 1..Len(SourceData) : SourceData[i] < 0 /\ IsPeakOf(-SourceData[i], SourceData)
  /\ ~IsPeakOf(PeakAbs(SourceData), audioBuffer.channels[2])

-----------------------------------------------------------------------------
(* The transforms of the editor                                            *)

Returned == result.kind = "buffer"

Threw == result = Throw

InRange(buf) ==
  \A c \in 1..Len(buf.channels) : \A i \in 1..Len(buf.channels[c]) :
    Abs(buf.channels[c][i]) <= buf.den

\* C11: every buffer returned by normalizeAudio or amplifyAudio has all
\* samples of all channels within [-1, 1], whatever the input holds.
\* normalizeAudio scales channel 0 only and copies the other channels (and
\* returns its input when channel 0 is silent), so a second channel at 5.0
\* comes back at 5.0.
C11_AllSamplesInRange ==
  (op \in {"normalizeAudio", "amplifyAudio", "amplifyReciprocal"} /\ Returned)
    => InRange(result.buffer)

Sign(n) == IF n > 0 THEN 1 ELSE IF n < 0 THEN -1 ELSE 0

OctaveRatio(semitones) ==
  IF semitones >= 0 THEN [n |-> 2^(semitones \div 12), d |-> 1]
  ELSE [n |-> 1, d |-> 2^((-semitones) \div 12)]

RatioApplied == IF op = "pitchShift" THEN OctaveRatio(arg.semitones) ELSE arg.speed

Resampling ==
  \/ op = "pitchShift" /\ arg.semitones % 12 = 0
  \/ op = "changeSpeed" /\ arg.speed.n > 0

\* out is the linear interpolation of data at the fractional index
\* i * ratio, or data[floor(i * ratio)] alone when the next index is past
\* the end (out over outDen, data over den)
IsInterpolationAt(out, outDen, data, den, ratio, i) ==
  \E index \in 0..(Len(data) - 1) :
    /\ IsFloorOf(index, i * ratio.n, ratio.d)
    /\ LET f == i * ratio.n - index * ratio.d
       IN  IF index + 1 < Len(data)
             THEN out * den * ratio.d
                    = (data[index + 1] * (ratio.d - f) + data[index + 2] * f) * outDen
             ELSE out * den = data[index + 1] * outDen

\* C13: pitchShift(buf, s) with ratio = 2^(s/12) returns a buffer of length
\* floor(L / ratio) and changeSpeed(buf, v) one of length floor(L / v), with
\* the channel count and sample rate of buf, the same new length in every
\* channel, and output[i] the linear interpolation of the same channel at
\* i * ratio.  Where floor(L / ratio) is 0 the code returns no buffer.
C13_Resample ==
  Resampling =>
    /\ Returned
    /\ result.buffer.sampleRate = audioBuffer.sampleRate
    /\ Len(result.buffer.channels) = Len(audioBuffer.channels)
    /\ \A c \in 1..Len(audioBuffer.channels) :
         /\ IsFloorOf(Len(result.buffer.channels[c]),
                      BufferLength(audioBuffer) * RatioApplied.d, RatioApplied.n)
         /\ \A i \in 1..Len(result.buffer.channels[c]) :
              IsInterpolationAt(result.buffer.channels[c][i], result.buffer.den,
                                audioBuffer.channels[c], audioBuffer.den,
                                RatioApplied, i - 1)

SameSamples(out, buf) ==
  /\ Len(out.channels) = Len(buf.channels)
  /\ \A c \in 1..Len(buf.channels) :
       /\ Len(out.channels[c]) = Len(buf.channels[c])
       /\ \A i \in 1..Len(buf.channels[c]) :
            out.channels[c][i] * buf.den = buf.channels[c][i] * out.den

IdentityResample ==
  \/ op = "pitchShift" /\ arg.semitones = 0
  \/ op = "changeSpeed" /\ arg.speed.n = arg.speed.d

\* C14: pitchShift(buf, 0) and changeSpeed(buf, 1) return a buffer of the
\* length of buf whose samples equal those of buf in every channel.
C14_IdentityResample ==
  IdentityResample =>
    /\ Returned
    /\ result.buffer.sampleRate = audioBuffer.sampleRate
    /\ SameSamples(result.buffer, audioBuffer)

C14_Witness ==
  /\ op = "pitchShift"
  /\ arg.semitones = 0
  /\ Returned
  /\ Len(audioBuffer.channels) = 2
  /\ BufferLength(audioBuffer) >= 2
  /\ audioBuffer.channels[1] # audioBuffer.channels[2]
  /\ result.buffer.channels[1][BufferLength(audioBuffer)] # 0
  /\ result.buffer.channels[1][1] # result.buffer.channels[1][2]

\* the sample indices trimAudio and cutAudio compute from their times
StartSample == TimeToSample(arg.startTime, audioBuffer.sampleRate)

EndSample == TimeToSample(arg.endTime, audioBuffer.sampleRate)

ValidRange ==
  0 <= StartSample /\ StartSample < EndSample /\ EndSample <= BufferLength(audioBuffer)

\* C15: trimAudio(buf, start, end) with 0 <= startSample < endSample <= L
\* returns a buffer of length endSample - startSample whose sample i of
\* each channel is sample startSample + i of the same input channel, and
\* trimAudio(buf, 0, buf.duration) returns a buffer with the length and
\* samples of buf.  The second part fails where the double
\* (L / sampleRate) * sampleRate falls below L.
C15_Trim ==
  op = "trimAudio" =>
    /\ ValidRange =>
         /\ Returned
         /\ result.buffer.sampleRate = audioBuffer.sampleRate
         /\ Len(result.buffer.channels) = Len(audioBuffer.channels)
         /\ \A c \in 1..Len(audioBuffer.channels) :
              /\ Len(result.buffer.channels[c]) = EndSample - StartSample
              /\ \A i \in 1..(EndSample - StartSample) :
                   result.buffer.channels[c][i] * audioBuffer.den
                     = audioBuffer.channels[c][StartSample + i] * result.buffer.den
    /\ (arg.startTime = ExactTime(0) /\ arg.endTime = duration(audioBuffer)) =>
         /\ Returned
         /\ SameSamples(result.buffer, audioBuffer)

\* C16: cutAudio(buf, start, end) with 0 <= startSample < endSample <= L
\* returns a buffer of length L - (endSample - startSample) whose every
\* channel is the input samples [0, startSample) followed by the input
\* samples [endSample, L); with the trimAudio result for the same range
\* the two partition the input samples.  Cutting the whole buffer asks
\* for a buffer of no frames, which the code cannot create.
C16_Cut ==
  (op = "cutAudio" /\ ValidRange) =>
    /\ Returned
    /\ result.buffer.sampleRate = audioBuffer.sampleRate
    /\ Len(result.buffer.channels) = Len(audioBuffer.channels)
    /\ LET trimmed == trimAudio(audioBuffer, arg.startTime, arg.endTime)
           kept == result.buffer
           removed == EndSample - StartSample
       IN  /\ trimmed.kind = "buffer"
           /\ \A c \in 1..Len(audioBuffer.channels) :
                /\ Len(kept.channels[c]) = BufferLength(audioBuffer) - removed
                /\ \A i \in 1..Len(kept.channels[c]) :
                     kept.channels[c][i] * audioBuffer.den
                       = kept.den * (IF i <= StartSample
                                       THEN audioBuffer.channels[c][i]
                                       ELSE audioBuffer.channels[c][i + removed])
                /\ SubSeq(kept.channels[c], 1, StartSample)
                     \o trimmed.buffer.channels[c]
                     \o SubSeq(kept.channels[c], StartSample + 1, Len(kept.channels[c]))
                     = audioBuffer.channels[c]

Transformed == op # "input"

IsSilent(data) == \A i \in 1..Len(data) : data[i] = 0

\* C17 as stated: every transform returns a brand-new buffer, never the
\* object it was given, a silent input included.
C17_AlwaysNewBuffer ==
  (Transformed /\ Returned) => ~result.same

\* C17, amended: a transform that returns a buffer returns a newly created
\* one, except normalizeAudio on a buffer whose channel 0 is all zeros,
\* which returns the very object it was given; and no transform writes to
\* the samples of its input.
C17_NewBufferUnlessSilent ==
  [][ /\ audioBuffer' = audioBuffer
      /\ result'.kind = "buffer" =>
           /\ result'.same <=> (op' = "normalizeAudio" /\ IsSilent(audioBuffer.channels[1]))
           /\ result'.same => result'.buffer = audioBuffer ]_vars

C17_Witness ==
  /\ op = "normalizeAudio"
  /\ Returned
  /\ result.same
  /\ Len(audioBuffer.channels) = 2
  /\ BufferLength(audioBuffer) = 2
  /\ ~IsSilent(audioBuffer.channels[2])

\* C18: amplifyAudio, pitchShift and changeSpeed never throw, whatever
\* finite gain, semitone count or speed they are given (0, negative and
\* huge values included); an extreme value gives a zero-length or fully
\* clamped buffer.  The code asks createBuffer for a buffer of no frames,
\* which is an error.
C18_NeverThrows ==
  op \in {"amplifyAudio", "amplifyReciprocal", "pitchShift", "changeSpeed"}
    => ~Threw /\ Returned

PeakPreserving ==
  \/ op = "pitchShift"
  \/ op = "changeSpeed" /\ arg.speed.n > 0
  \/ op = "trimAudio" /\ ValidRange

\* C19: the buffers returned by pitchShift, changeSpeed (speed > 0) and
\* trimAudio (valid range) hold no new peaks: in every channel no output
\* sample is larger in absolute value than the largest absolute sample of
\* the same channel of the input.
C19_NoNewPeaks ==
  (PeakPreserving /\ Returned) =>
    \A c \in 1..Len(result.buffer.channels) :
      \A i \in 1..Len(result.buffer.channels[c]) :
        \E j \in 1..Len(audioBuffer.channels[c]) :
          Abs(result.buffer.channels[c][i]) * audioBuffer.den
            <= Abs(audioBuffer.channels[c][j]) * result.buffer.den

C19_Witness ==
  /\ op = "pitchShift"
  /\ arg.semitones = -12
  /\ Returned
  /\ Len(audioBuffer.channels) = 2
  /\ \E i \in 1..Len(result.buffer.channels[1]) :
       /\ result.buffer.channels[1][i] # 0
       /\ \A j \in 1..Len(audioBuffer.channels[1]) :
            result.buffer.channels[1][i] * audioBuffer.den
              # audioBuffer.channels[1][j] * result.buffer.den

-----------------------------------------------------------------------------
(* The history of the text-to-speech hook                                  *)

\* C20: the list written to localStorage under 'tts-history' never holds
\* more than 50 items, after any sequence of completed playbacks,
\* deletions, clears and reloads.
C20_StoredHistoryBounded ==
  localStorage.present => Len(localStorage.items) <= 50

C20_Witness ==
  /\ Len(history) > 50
  /\ localStorage.present
  /\ Len(localStorage.items) = 50
  /\ localStorage.items # SubSeq(history, 1, 50)

-----------------------------------------------------------------------------
(* The audio editor panel: C21 to C25 and C30                              *)

\* this step is a call of applyEffect or applyVoiceStyle
TransformRequested ==
  /\ clicks' = clicks + 1
  /\ op' \in {"applyEffect", "applyVoiceStyle"}

\* this step is the end of a handler that awaited a rendering
Completes == op' = "renderingCompleted" /\ inFlight' # inFlight

\* this step installs the buffer a transform returned
Installs == result'.kind = "buffer" /\ audioBuffer' = result'.buffer

\* C21: the editor's transforms are sequenced: no effect or voice style is
\* started while another one is in flight, so no two of them read the same
\* working buffer and none overwrites the result of another.  The editor
\* has no such guard: a second request is accepted while a rendering runs.
C21_TransformsSequenced ==
  [][TransformRequested => inFlight = {}]_vars

\* the pitch step of a voice style on the retained original
PitchStep(original, styleId) ==
  pitchShiftBy(original, StylePitchRatio(StyleSemitones(voiceStyles(styleId))))

\* a step of the style's chain before the rendering throws
StyleFails(original, styleId) ==
  \/ PitchStep(original, styleId) = Throw
  \/ /\ voiceStyles(styleId).rate.n # voiceStyles(styleId).rate.d
     /\ changeSpeed(PitchStep(original, styleId).buffer,
                    voiceStyles(styleId).rate) = Throw

\* this step is a request or a completion in which a transform threw
TransformFailed ==
  \/ op' \in {"applyEffect", "applyVoiceStyle", "renderingCompleted"}
       /\ result' = Throw
  \/ op' = "applyVoiceStyle" /\ clicks' = clicks + 1
       /\ StyleFails(arg'.originalAudioBuffer, arg'.styleId)

\* C22: when a transform throws during applyEffect or applyVoiceStyle (a
\* buffer that cannot be created, a rejected rendering), the working
\* buffer, the retained original and the trim range are what they were
\* before the step; whenever the working buffer changes in a transform
\* step, it becomes the buffer the whole transform returned.
C22_FailureLeavesBuffers ==
  [][/\ TransformFailed =>
          /\ audioBuffer' = audioBuffer
          /\ originalAudioBuffer' = originalAudioBuffer
          /\ trimStart' = trimStart /\ trimEnd' = trimEnd
     /\ (op' \in {"applyEffect", "applyVoiceStyle", "renderingCompleted"}
           /\ audioBuffer' # audioBuffer) => Installs]_vars

\* a voice style whose pitch step gave a buffer and whose speed step threw
C22_Witness ==
  /\ op = "applyVoiceStyle"
  /\ result = Throw
  /\ PitchStep(arg.originalAudioBuffer, arg.styleId) # Throw
  /\ audioBuffer # NoBuffer

\* C23: the retained original changes only when a file is loaded or a
\* recording is decoded, and a step of handleResetSettings with an original
\* retained makes the working buffer that original and the trim range
\* 0 .. duration of the original.
C23_OriginalRetained ==
  [][/\ originalAudioBuffer' # originalAudioBuffer => op' = "handleFileUpload"
     /\ (op' = "handleResetSettings" /\ originalAudioBuffer # NoBuffer) =>
          /\ audioBuffer' = originalAudioBuffer
          /\ originalAudioBuffer' = originalAudioBuffer
          /\ trimStart' = ExactTime(0)
          /\ trimEnd' = duration(originalAudioBuffer)]_vars

\* a reset that replaced a transformed working buffer by the original
C23_Witness ==
  /\ op = "handleResetSettings"
  /\ arg.audioBuffer # originalAudioBuffer
  /\ audioBuffer = originalAudioBuffer
  /\ originalAudioBuffer # NoBuffer

\* C24: whenever the editor calls trimAudio, the range it passes is valid
\* for the working buffer it passes: 0 <= startSample < endSample <= length.
\* The editor passes the trim fields as they are: nothing compares them
\* with each other or with the buffer.
C24_TrimArgumentsValid ==
  (op = "applyEffect" /\ arg.effect = "trim") =>
    LET startSample == TimeToSample(arg.trimStart, arg.audioBuffer.sampleRate)
        endSample == TimeToSample(arg.trimEnd, arg.audioBuffer.sampleRate)
    IN  /\ 0 <= startSample
        /\ startSample < endSample
        /\ endSample <= BufferLength(arg.audioBuffer)

\* the buffer a voice style hands to setAudioBuffer or, for the robot
\* style, to robotizeVoice: the pitch step when (pitch - 1) * 12 is not 0,
\* then the speed step when the rate is not 1
StyleChain(original, styleId) ==
  LET style == voiceStyles(styleId)
      afterPitch == IF style.pitch.n # style.pitch.d
                      THEN PitchStep(original, styleId).buffer
                      ELSE original
  IN  IF style.rate.n # style.rate.d
        THEN changeSpeed(afterPitch, style.rate).buffer
        ELSE afterPitch

\* C25: a voice style that succeeds makes the working buffer the chain of
\* its steps applied to the retained original, whatever the working buffer
\* was: for the robot style the rendering is asked on that chain and the
\* robotized rendering is installed, for every other style the chain
\* itself is installed.
C25_StyleFromOriginal ==
  [][/\ (op' = "applyVoiceStyle" /\ clicks' = clicks + 1
           /\ result'.kind = "buffer") =>
          /\ arg'.styleId # "robot"
          /\ audioBuffer' = StyleChain(originalAudioBuffer, arg'.styleId)
     /\ (op' = "applyVoiceStyle" /\ clicks' = clicks + 1
           /\ inFlight' # inFlight) =>
          /\ arg'.styleId = "robot"
          /\ \E request \in inFlight' \ inFlight :
               /\ request.from = originalAudioBuffer
               /\ request.input = StyleChain(originalAudioBuffer, "robot")
     /\ (Completes /\ arg'.request.kind = "style"
           /\ result'.kind = "buffer") =>
          audioBuffer' =
            robotizeVoice(StyleChain(arg'.request.from, "robot"),
                          arg'.outcome).buffer]_vars

\* a style of two steps applied while the working buffer was not the
\* original, and the same style applied again on its own result
C25_Witness ==
  /\ op = "applyVoiceStyle"
  /\ result.kind = "buffer"
  /\ arg.audioBuffer # arg.originalAudioBuffer
  /\ voiceStyles(arg.styleId).rate.n # voiceStyles(arg.styleId).rate.d
  /\ audioBuffer = StyleChain(originalAudioBuffer, arg.styleId)

\* C30: the end of a handler that awaited a rendering installs its buffer
\* only if the buffer the handler read when it was called is still the
\* current one: the working buffer for an effect, the retained original
\* for a voice style.  The handlers install without looking.
C30_InstalledOnlyIfCurrent ==
  [][(Completes /\ result'.kind = "buffer" /\ audioBuffer' = result'.buffer) =>
       IF arg'.request.kind = "effect"
         THEN arg'.request.from = audioBuffer
         ELSE arg'.request.from = originalAudioBuffer]_vars

-----------------------------------------------------------------------------
(* The history of the text-to-speech hook: C26 and C29                     *)

\* the ids of the items of a history list
Ids(items) == {items[i] : i \in 1..Len(items)}

\* C26: when a playback has run through its chunks, the item it creates is
\* in the list stored under 'tts-history', however long the history is.
\* The stored list is history.slice(-50) of a list that grows at the front:
\* from the 51st item on, the new item is the one left out.
C26_NewestItemStored ==
  [][op' = "speakChunk" /\ now' = now + 1 =>
       /\ localStorage'.present
       /\ now' \in Ids(localStorage'.items)]_vars

\* C29: after deleteHistoryItem(id) the stored history has no item with
\* that id, after clearHistory it has no items, and a reload that follows
\* a deletion does not show the deleted item.  Deleting the only item
\* leaves an empty list, which the saving effect does not write.
C29_DeletedStaysDeleted ==
  [][/\ op' = "deleteHistoryItem" /\ history' # history =>
          arg'.id \notin Ids(localStorage'.items)
     /\ op' = "clearHistory" => ~localStorage'.present
     /\ op = "deleteHistoryItem" /\ op' = "reload" =>
          arg.id \notin Ids(history')]_vars

-----------------------------------------------------------------------------
(* splitTextIntoChunks (hooks/useTextToSpeech.ts)                          *)

DefaultMaxLength == 200

MaxTextLen == 3

\* the characters [\.!\?] of the sentence pattern
Terminators == {".", "!", "?"}

\* characters String.prototype.trim removes
Whitespace == {" ", "\n", "\t"}

\* the first position from `from` on whose character is a terminator
\* (terminator = TRUE) or is none (FALSE); Len(str) + 1 when there is none
FirstPosition(str, from, terminator) ==
  IF \E i \in from..Len(str) : (str[i] \in Terminators) = terminator
    THEN CHOOSE i \in from..Len(str) :
           /\ (str[i] \in Terminators) = terminator
           /\ \A j \in from..(i - 1) : (str[j] \in Terminators) # terminator
    ELSE Len(str) + 1

RECURSIVE MatchSentences(_, _)
\* str.match(/[^\.!\?]+[\.!\?]+/g) from position `from` on: each match is
\* a longest run of other characters followed by a longest run of
\* terminators; the search skips what cannot start a match and ends when
\* no terminator follows
MatchSentences(str, from) ==
  LET start == FirstPosition(str, from, FALSE)
      mark == FirstPosition(str, start, TRUE)
      end == FirstPosition(str, mark, FALSE)
  IN  IF start > Len(str) \/ mark > Len(str) THEN <<>>
      ELSE <<SubSeq(str, start, end - 1)>> \o MatchSentences(str, end)

\* String.prototype.trim
Trim(str) ==
  LET kept == {i \in 1..Len(str) : str[i] \notin Whitespace}
  IN  IF kept = {} THEN <<>>
      ELSE SubSeq(str, CHOOSE i \in kept : \A j \in kept : i <= j,
                       CHOOSE i \in kept : \A j \in kept : i >= j)

RECURSIVE ForEachSentence(_, _, _, _, _)
\* sentences.forEach(...) from sentence k on
ForEachSentence(sentences, k, chunks, currentChunk, maxLength) ==
  IF k > Len(sentences)
    THEN [chunks |-> chunks, currentChunk |-> currentChunk]
  ELSE IF Len(currentChunk) + Len(sentences[k]) <= maxLength
    THEN ForEachSentence(sentences, k + 1, chunks,
                         currentChunk \o sentences[k], maxLength)
  ELSE ForEachSentence(sentences, k + 1,
                       IF Len(currentChunk) > 0
                         THEN Append(chunks, Trim(currentChunk))
                         ELSE chunks,
                       sentences[k], maxLength)

splitTextIntoChunks(str, maxLength) ==
  LET matched == MatchSentences(str, 1)
      sentences == IF Len(matched) = 0 THEN <<str>> ELSE matched
      loop == ForEachSentence(sentences, 1, <<>>, <<>>, maxLength)
      chunks == IF Len(loop.currentChunk) > 0
                  THEN Append(loop.chunks, Trim(loop.currentChunk))
                  ELSE loop.chunks
  IN  IF Len(chunks) > 0 THEN chunks ELSE <<str>>

\* a sentence of n characters: letters and a full stop
Sentence(n, letter) == ConstSeq(n - 1, letter) \o <<".">>

\* texts longer than one chunk
LongTexts ==
  { Sentence(120, "a") \o Sentence(120, "b") \o Sentence(120, "a"),
    Sentence(100, "a") \o Sentence(100, "b") \o <<" ">> \o Sentence(100, "a"),
    Sentence(100, "a") \o <<" ">> \o Sentence(100, "b"),
    Sentence(250, "a"),
    Sentence(150, "a") \o <<" ">> \o Sentence(150, "b") \o <<" ">>
      \o ConstSeq(30, "a") }

Texts == SeqsUpTo({"a", "b", " ", "."}, MaxTextLen) \cup LongTexts

InitSplit ==
  /\ op = "input"
  /\ arg = [none |-> TRUE]
  /\ result = NoResult
  /\ audioBuffer = NoBuffer
  /\ pcmData = NoPCM
  /\ history = <<>>
  /\ localStorage = NoItem
  /\ now = 0
  /\ EditorIdle
  /\ text \in Texts
  /\ chunksRef = <<>>
  /\ currentIndexRef = 0
  /\ utteranceRef = 0
  /\ isPlaying = FALSE
  /\ isPaused = FALSE
  /\ utterances = {}
  /\ spoken = 0
  /\ enginePaused = FALSE

DoSplitTextIntoChunks ==
  /\ op = "input"
  /\ op' = "splitTextIntoChunks"
  /\ arg' = [maxLength |-> DefaultMaxLength]
  /\ result' = [kind |-> "chunks",
                chunks |-> splitTextIntoChunks(text, DefaultMaxLength)]
  /\ UNCHANGED <<audioBuffer, pcmData, history, localStorage, now, editorVars,
                 speechVars>>

NextSplit == DoSplitTextIntoChunks

SpecSplit == InitSplit /\ [][NextSplit]_vars

\* the characters of a text that are not whitespace, in order
NonWhitespace(str) == SelectSeq(str, LAMBDA ch : ch \notin Whitespace)

\* C27: splitTextIntoChunks loses no text: the result is never empty, and
\* the chunks, read in order, have the non-whitespace characters of the
\* input in their order.  The sentence pattern matches only text that ends
\* in a terminator: once one sentence is matched, what follows the last
\* terminator (and terminators that lead the text) is in no chunk.
C27_NoTextLost ==
  op = "splitTextIntoChunks" =>
    /\ Len(result.chunks) > 0
    /\ NonWhitespace(Join(result.chunks, <<>>)) = NonWhitespace(text)

-----------------------------------------------------------------------------
(* Playback in the text-to-speech hook: play, pause, stop and the events   *)
(* of the utterances handed to speechSynthesis.  An utterance is known by  *)
(* the number of the speak() call that queued it and carries the chunk     *)
(* index its handlers closed over.  cancel() empties the engine's queue;   *)
(* the event an engine then fires for the utterance it was speaking is     *)
(* `error` on some engines and `end` on others, and an `end` already       *)
(* queued when cancel() is called is delivered after it.                   *)

MaxSpoken == 3

SpeechTexts ==
  { <<"a", ".">>,
    <<" ">>,
    Sentence(120, "a") \o Sentence(120, "b") \o Sentence(120, "a") }

\* speechSynthesis.cancel()
Cancelled(queue) == {[u EXCEPT !.cancelled = TRUE] : u \in queue}

\* the utterance the engine is speaking: the oldest one not cancelled
Speaking(u) ==
  /\ ~u.cancelled
  /\ \A v \in utterances : ~v.cancelled => u.id <= v.id

\* speakChunk(index) with the engine's queue left as `queue`
SpeakChunk(index, chunks, queue) ==
  IF index >= Len(chunks)
    THEN /\ isPlaying' = FALSE
         /\ isPaused' = FALSE
         /\ utteranceRef' = 0
         /\ now' = now + 1
         /\ history' = <<now'>> \o history
         /\ localStorage' = SaveHistory(history', localStorage)
         /\ utterances' = queue
         /\ spoken' = spoken
    ELSE /\ spoken' = spoken + 1
         /\ utterances' = queue \cup
              {[id |-> spoken', index |-> index, cancelled |-> FALSE]}
         /\ utteranceRef' = spoken'
         /\ UNCHANGED <<history, localStorage, now>>

InitSpeech ==
  /\ op = "input"
  /\ arg = [none |-> TRUE]
  /\ result = NoResult
  /\ audioBuffer = NoBuffer
  /\ pcmData = NoPCM
  /\ history = <<>>
  /\ localStorage = NoItem
  /\ now = 0
  /\ EditorIdle
  /\ text \in SpeechTexts
  /\ chunksRef = <<>>
  /\ currentIndexRef = 0
  /\ utteranceRef = 0
  /\ isPlaying = FALSE
  /\ isPaused = FALSE
  /\ utterances = {}
  /\ spoken = 0
  /\ enginePaused = FALSE

\* play() with a text that is not blank
Play ==
  /\ spoken < MaxSpoken
  /\ Len(Trim(text)) > 0
  /\ op' = "play"
  /\ IF isPaused /\ utteranceRef # 0
       THEN /\ enginePaused' = FALSE
            /\ isPlaying' = TRUE
            /\ isPaused' = FALSE
            /\ UNCHANGED <<chunksRef, currentIndexRef, utteranceRef, utterances,
                           spoken, history, localStorage, now>>
       ELSE /\ chunksRef' = splitTextIntoChunks(text, DefaultMaxLength)
            /\ currentIndexRef' = 0
            /\ spoken' = spoken + 1
            /\ utterances' = Cancelled(utterances) \cup
                 {[id |-> spoken', index |-> 0, cancelled |-> FALSE]}
            /\ utteranceRef' = spoken'
            /\ isPlaying' = TRUE
            /\ isPaused' = FALSE
            /\ UNCHANGED <<enginePaused, history, localStorage, now>>
  /\ UNCHANGED <<audioBuffer, pcmData, arg, result, editorVars, text>>

Pause ==
  /\ op' = "pause"
  /\ enginePaused' = TRUE
  /\ isPlaying' = FALSE
  /\ isPaused' = TRUE
  /\ UNCHANGED <<audioBuffer, pcmData, arg, result, history, localStorage, now,
                 editorVars, text, chunksRef, currentIndexRef, utteranceRef,
                 utterances, spoken>>

Stop ==
  /\ op' = "stop"
  /\ utterances' = Cancelled(utterances)
  /\ isPlaying' = FALSE
  /\ isPaused' = FALSE
  /\ utteranceRef' = 0
  /\ currentIndexRef' = 0
  /\ UNCHANGED <<audioBuffer, pcmData, arg, result, history, localStorage, now,
                 editorVars, text, chunksRef, spoken, enginePaused>>

\* utterance.onend: the utterance was spoken to its end, or the engine
\* reports the end of a cancelled one
UtteranceEnd ==
  /\ \E u \in utterances :
       /\ u.cancelled \/ (Speaking(u) /\ ~enginePaused)
       /\ currentIndexRef' = u.index + 1
       /\ SpeakChunk(u.index + 1, chunksRef, utterances \ {u})
       /\ IF u.index + 1 >= Len(chunksRef)
            THEN TRUE
            ELSE UNCHANGED <<isPlaying, isPaused>>
  /\ UNCHANGED <<audioBuffer, pcmData, op, arg, result, editorVars, text,
                 chunksRef, enginePaused>>

\* utterance.onerror
UtteranceError ==
  /\ \E u \in utterances :
       /\ u.cancelled \/ Speaking(u)
       /\ utterances' = utterances \ {u}
  /\ isPlaying' = FALSE
  /\ isPaused' = FALSE
  /\ utteranceRef' = 0
  /\ UNCHANGED <<audioBuffer, pcmData, op, arg, result, history, localStorage,
                 now, editorVars, text, chunksRef, currentIndexRef, spoken,
                 enginePaused>>

NextSpeech ==
  \/ Play
  \/ Pause
  \/ Stop
  \/ UtteranceEnd
  \/ UtteranceError

SpecSpeech == InitSpeech /\ [][NextSpeech]_vars

\* the utterances the engine still has to speak
Live(queue) == {u \in queue : ~u.cancelled}

\* C28: while stop() is the last command given, no chunk is handed to the
\* engine and no history item is added, whichever event the engine
\* delivers for the cancelled utterance; and at no time is more than one
\* utterance waiting to be spoken, so that one chain of chunks is active.
\* Neither stop() nor play() detaches onend from the utterance it cancels.
C28_StopEndsPlayback ==
  [][/\ (op = "stop" /\ op' = "stop") =>
          /\ spoken' = spoken
          /\ history' = history
     /\ Cardinality(Live(utterances')) <= 1]_vars

====
